---- MODULE Spec2Model ----
(***************************************************************************)
(* Relay (proxy) layer of the referral bot: ProxyManager                   *)
(* (src/src/proxy/proxy-manager.ts) and QuantumProxyManager                *)
(* (src/src/proxy/quantum-proxy-manager.ts).                               *)
(*                                                                         *)
(* The operations of the two classes are actions over the fields of the   *)
(* class.  The outcomes of the network (probe latencies, TCP and HTTP      *)
(* check results, the shuffle) are parameters of the actions; each         *)
(* specification below binds them to a small set.                          *)
(***************************************************************************)
EXTENDS Integers, Sequences, FiniteSets, Bags, TLC

VARIABLES
    \* ---- ProxyManager fields (proxy-manager.ts:11-18) ----
    proxies,            \* ProxyInfo[]: the pool
    loaded,             \* has the constructor's loadProxies() assigned the pool
    testCount,          \* options.testCount
    bestProxy,          \* ProxyInfo | null (carries responseTime)
    currentProxy,       \* ProxyInfo | null
    proxyHealthScores,  \* Map<string, number>: partial function key -> score
    keepAliveEnabled,   \* options.keepAliveEnabled
    keepAliveMs,        \* options.keepAliveInterval, in ms
    keepAliveInterval,  \* NodeJS.Timeout | null: the stored timer handle
    pmTimers,           \* the interval timers of this manager that are live
    pmPings,            \* performAggressiveKeepAlivePing calls in flight (a bag)
    lastPing,           \* the result of the last such call that completed
    \* ---- QuantumProxyManager fields (quantum-proxy-manager.ts:23-29) ----
    connections,        \* Map<string, SmartConnection>: partial function key -> connection
    connectionOrder,    \* the keys of connections in the order they were inserted
    currentConnection,  \* SmartConnection | null
    dnsCache,           \* Map<string, { ip, expires }>
    now,                \* Date.now()
    nextConnection,     \* identity of the next SmartConnection object created
    qInits,             \* initializeQuantumConnection calls in flight (a bag)
    qKeepAliveInterval, \* NodeJS.Timeout | null: the stored timer handle
    qTimers,            \* the interval timers of this manager that are live
    qPings,             \* performAggressiveKeepAlivePing calls in flight (a bag)
    \* ---- CrossfireReferralBot (unnamed/part_002) ----
    useProxy,           \* config.useProxy: 0 is direct, 1..4 a proxy type, 5 stable mode
    botAt,              \* where the bot's run is: idle, registering, returned, closed
    \* ---- observation of the last completed call ----
    call,               \* [op, before, pool, ...]: its name, and the current relay and
                        \* the pool size when it was made (and its argument, or the
                        \* timer handle stored when it was made)
    ret,                \* its return value
    probes              \* the pingProxy calls it issued, in order: [index, relay, rt]

vars == <<proxies, loaded, testCount, bestProxy, currentProxy, proxyHealthScores,
          keepAliveEnabled, keepAliveMs, keepAliveInterval, pmTimers, pmPings, lastPing,
          connections, connectionOrder, currentConnection, dnsCache, now,
          nextConnection, qInits,
          qKeepAliveInterval, qTimers, qPings,
          useProxy, botAt,
          call, ret, probes>>

\* the options of the ProxyManager
optVars == <<testCount, keepAliveEnabled, keepAliveMs>>
\* pool, selection and scores
pmVars == <<proxies, loaded, bestProxy, currentProxy, proxyHealthScores>>
\* keep-alive timer and checks in flight
kaVars == <<keepAliveInterval, pmTimers, pmPings, lastPing>>
\* the fields of the QuantumProxyManager
qVars == <<connections, connectionOrder, currentConnection, dnsCache, now,
           nextConnection, qInits,
           qKeepAliveInterval, qTimers, qPings>>
\* the fields of the bot
botVars == <<useProxy, botAt>>
\* the observation of the last call
obsVars == <<call, ret, probes>>

-----------------------------------------------------------------------------
(* Bounds of the model *)

\* longest pool loaded where the selector is checked
MaxSelPool == 2
\* longest pool loaded where switching is checked
MaxSwPool == 4
\* largest configured options.testCount
MaxTestCount == 2

-----------------------------------------------------------------------------
(* Values *)

\* null / undefined
Null == [null |-> TRUE]

\* "No return value yet"
NoCall == [op |-> "none", before |-> Null, pool |-> 0]

Relay(h, p, pr) == [host |-> h, port |-> p, protocol |-> pr]

\* the two relays of the specification's end-to-end scenario, and a second
\* line for the first address with another scheme (same host:port key)
R1 == Relay("10.0.0.1", 8080, "socks5")
R2 == Relay("10.0.0.2", 1080, "socks5")
R3 == Relay("10.0.0.3", 1080, "socks5")
R1b == Relay("10.0.0.1", 8080, "socks4")

\* `${p.host}:${p.port}`: the colon-joined string is determined by, and
\* determines, the pair (a port has no colon), so the pair stands for it
KeyOf(p) == <<p.host, p.port>>

\* the ProxyInfo fields of a relay, without a measured responseTime
Bare(p) == Relay(p.host, p.port, p.protocol)

\* { ...proxy, responseTime }
WithResponseTime(p, rt) ==
    [host |-> p.host, port |-> p.port, protocol |-> p.protocol, responseTime |-> rt]

\* the pools of at most n entries over the relays of the sequence rs, up to
\* the names of the relays: an entry is a relay already in the pool or the
\* next relay of rs (repeated entries included)
PoolsUpTo(rs, n) ==
    LET Idx == UNION {[1..k -> 1..Len(rs)] : k \in 0..n}
        InOrder(f) == \A i \in 1..Len(f) :
                         f[i] = 1 \/ \E j \in 1..(i - 1) : f[j] >= f[i] - 1
    IN  {[i \in 1..Len(f) |-> rs[f[i]]] : f \in {g \in Idx : InOrder(g)}}

\* the first k entries of every order of the indices 1..n
FirstOfShuffles(n, k) ==
    {f \in [1..k -> 1..n] : \A i, j \in 1..k : f[i] = f[j] => i = j}

Range(f) == {f[i] : i \in DOMAIN f}

Min(a, b) == IF a < b THEN a ELSE b
Max(a, b) == IF a > b THEN a ELSE b

-----------------------------------------------------------------------------
(* Map<string, number> *)

\* this.proxyHealthScores.get(key) || 0
ScoreOf(scores, key) == IF key \in DOMAIN scores THEN scores[key] ELSE 0

\* this.proxyHealthScores.set(key, value)
MapSet(scores, key, value) ==
    [k \in (DOMAIN scores) \cup {key} |-> IF k = key THEN value ELSE scores[k]]

EmptyMap == [k \in {} |-> 0]

-----------------------------------------------------------------------------
(* ProxyManager: construction and loading *)

\* loadProxies(): the pool becomes the list of parsed lines
LoadProxies(pool) ==
    /\ ~loaded
    /\ loaded' = TRUE
    /\ proxies' = pool
    /\ UNCHANGED <<bestProxy, currentProxy, proxyHealthScores>>
    /\ UNCHANGED <<optVars, botVars, qVars, kaVars, obsVars>>

-----------------------------------------------------------------------------
(* ProxyManager: selection *)

\* Math.min(this.options.testCount, this.proxies.length)
EffectiveTestCount == Min(testCount, Len(proxies))

\* the probes of one findBestProxy run: shuffled[i] is proxies[perm[i]] and
\* outs[i] is what pingProxy returned for it
ProbesOfSelection(perm, outs) ==
    [i \in 1..EffectiveTestCount |->
        [index |-> perm[i], relay |-> proxies[perm[i]], rt |-> outs[i]]]

\* results: the probes with responseTime > 0, in probe order
RECURSIVE SuccessfulResults(_)
SuccessfulResults(ps) ==
    IF ps = <<>> THEN <<>>
    ELSE LET rest == SuccessfulResults(Tail(ps))
         IN  IF Head(ps).rt > 0
             THEN <<WithResponseTime(Head(ps).relay, Head(ps).rt)>> \o rest
             ELSE rest

\* the comparator with its operands exchanged: slowest first
ResponseTimeBeforeDescending(a, b) == b.responseTime - a.responseTime < 0

\* comparator (a, b) => a.responseTime - b.responseTime: a goes before b
ResponseTimeBefore(a, b) == a.responseTime - b.responseTime < 0

\* insert x into the sorted sequence s behind every element that does not
\* have to go after it (Array.prototype.sort is stable)
RECURSIVE InsertByResponseTime(_, _)
InsertByResponseTime(x, s) ==
    IF s = <<>> THEN <<x>>
    ELSE IF ResponseTimeBefore(x, Head(s)) THEN <<x>> \o s
         ELSE <<Head(s)>> \o InsertByResponseTime(x, Tail(s))

\* results.sort((a, b) => a.responseTime - b.responseTime)
RECURSIVE SortByResponseTime(_)
SortByResponseTime(results) ==
    IF results = <<>> THEN <<>>
    ELSE InsertByResponseTime(results[Len(results)],
                              SortByResponseTime(SubSeq(results, 1, Len(results) - 1)))

\* findBestProxy(): the value of this.bestProxy after the run
FindBestProxy(perm, outs) ==
    LET results == SuccessfulResults(ProbesOfSelection(perm, outs))
    IN  IF Len(results) > 0 THEN SortByResponseTime(results)[1] ELSE bestProxy

\* a fallback that is missing: no relay when every probe failed
FallbackMissing == Null

\* const fallback = this.proxies[0]
FallbackProxy == proxies[1]

\* an answer to a call with no proxy loaded that hands out the current relay
NoProxiesKeepsCurrent == currentProxy

\* if (this.proxies.length === 0) return null
NoProxies == Null

\* getWorkingProxy()
GetWorkingProxy(perm, outs) ==
    /\ call' = [op |-> "getWorkingProxy", before |-> currentProxy, pool |-> Len(proxies)]
    /\ UNCHANGED <<optVars, botVars, qVars, kaVars>>
    /\ IF Len(proxies) = 0
       THEN /\ ret' = NoProxies
            /\ probes' = <<>>
            /\ UNCHANGED pmVars
       ELSE LET ran  == bestProxy = Null
                best == IF ran THEN FindBestProxy(perm, outs) ELSE bestProxy
            IN  /\ probes' = IF ran THEN ProbesOfSelection(perm, outs) ELSE <<>>
                /\ bestProxy' = best
                /\ currentProxy' = IF best # Null THEN best ELSE FallbackProxy
                /\ ret' = IF best # Null THEN best ELSE FallbackProxy
                /\ UNCHANGED <<proxies, loaded, proxyHealthScores>>

-----------------------------------------------------------------------------
(* ProxyManager: switching *)

\* Math.min(3, sortedProxies.length): candidates probed per switch
SwitchProbeLimit == 3
\* responseTime < 8000
LatencyCeiling == 8000
\* a.responseTime || 99999
UnknownLatency == 99999

\* p.responseTime || 99999 (undefined and 0 are falsy)
ResponseTimeOr(p) ==
    IF "responseTime" \in DOMAIN p /\ p.responseTime # 0
    THEN p.responseTime ELSE UnknownLatency

\* currentKey: the key of the current relay cur, or null
CurrentKey(cur) == IF cur # Null THEN KeyOf(cur) ELSE Null

\* a filter that keeps every pool entry
AvailableProxiesUnfiltered(cur) == proxies

\* this.proxies.filter((p) => `${p.host}:${p.port}` !== currentKey)
AvailableProxies(cur) == SelectSeq(proxies, LAMBDA p : KeyOf(p) # CurrentKey(cur))

\* the comparator of sortedProxies, on the scores held when the sort runs:
\* a negative result puts a before b
CandidateBefore(scores, a, b) ==
    LET scoreA == ScoreOf(scores, KeyOf(a))
        scoreB == ScoreOf(scores, KeyOf(b))
    IN  IF scoreA # scoreB
        THEN scoreB - scoreA < 0
        ELSE ResponseTimeOr(a) - ResponseTimeOr(b) < 0

RECURSIVE InsertCandidate(_, _, _)
InsertCandidate(scores, x, s) ==
    IF s = <<>> THEN <<x>>
    ELSE IF CandidateBefore(scores, x, Head(s)) THEN <<x>> \o s
         ELSE <<Head(s)>> \o InsertCandidate(scores, x, Tail(s))

\* availableProxies.sort(...): stable
RECURSIVE SortCandidates(_, _)
SortCandidates(scores, cands) ==
    IF cands = <<>> THEN <<>>
    ELSE InsertCandidate(scores, cands[Len(cands)],
                         SortCandidates(scores, SubSeq(cands, 1, Len(cands) - 1)))

\* a test without the ceiling: any positive probe passes
PassesWithoutCeiling(rt) == rt > 0

\* a candidate passes when its probe is positive and below the ceiling
Passes(rt) == rt > 0 /\ rt < LatencyCeiling

\* an acceptance worth 5
AcceptedScoreFive(score) == score + 5
\* the score of an accepted candidate: + 10
AcceptedScore(score) == score + 10

\* a penalty without the floor
RejectedScoreUnfloored(score) == score - 5

\* the score of a rejected candidate: Math.max(0, score - 5)
RejectedScore(score) == Max(0, score - 5)

\* a loop that probes the candidate after the accepted one as well
RECURSIVE SwitchLoopWithoutStop(_, _, _, _, _)
SwitchLoopWithoutStop(sorted, outs, i, scores, log) ==
    IF i > Min(SwitchProbeLimit, Len(sorted))
    THEN [scores |-> scores, accepted |-> Null, probes |-> log]
    ELSE LET cand == sorted[i]
             key  == KeyOf(cand)
             log2 == Append(log, [index |-> i, relay |-> cand, rt |-> outs[i]])
         IN  IF Passes(outs[i])
             THEN [scores   |-> MapSet(scores, key, AcceptedScore(ScoreOf(scores, key))),
                   accepted |-> cand,
                   probes   |-> IF i < Min(SwitchProbeLimit, Len(sorted))
                                THEN Append(log2, [index |-> i + 1,
                                                   relay |-> sorted[i + 1],
                                                   rt    |-> outs[i + 1]])
                                ELSE log2]
             ELSE SwitchLoopWithoutStop(sorted, outs, i + 1,
                             MapSet(scores, key, RejectedScore(ScoreOf(scores, key))),
                             log2)

\* the for loop of switchToNextProxy from index i on: the scores, the accepted
\* candidate (or null) and the probes issued
RECURSIVE SwitchLoop(_, _, _, _, _)
SwitchLoop(sorted, outs, i, scores, log) ==
    IF i > Min(SwitchProbeLimit, Len(sorted))
    THEN [scores |-> scores, accepted |-> Null, probes |-> log]
    ELSE LET cand == sorted[i]
             key  == KeyOf(cand)
             log2 == Append(log, [index |-> i, relay |-> cand, rt |-> outs[i]])
         IN  IF Passes(outs[i])
             THEN [scores   |-> MapSet(scores, key, AcceptedScore(ScoreOf(scores, key))),
                   accepted |-> cand,
                   probes   |-> log2]
             ELSE SwitchLoop(sorted, outs, i + 1,
                             MapSet(scores, key, RejectedScore(ScoreOf(scores, key))),
                             log2)

\* switchToNextProxy() run with the current relay cur and the score map
\* scores: the scores it leaves, the relay it returns (or null) and the probes
\* it issued
SwitchOutcome(cur, scores, outs) ==
    IF Len(proxies) = 0 \/ Len(AvailableProxies(cur)) = 0
    THEN [scores |-> scores, accepted |-> Null, probes |-> <<>>]
    ELSE SwitchLoop(SortCandidates(scores, AvailableProxies(cur)), outs, 1,
                    scores, <<>>)

\* probes a switch from the current relay cur issues at most
SwitchProbes(cur) ==
    IF Len(proxies) = 0 THEN 0
    ELSE Min(SwitchProbeLimit, Len(AvailableProxies(cur)))

\* largest health score the model follows
MaxScore == 11

WithinMaxScore(scores) == \A k \in DOMAIN scores : scores[k] <= MaxScore

\* switchToNextProxy(), called from outside
SwitchToNextProxy(outs) ==
    LET r == SwitchOutcome(currentProxy, proxyHealthScores, outs)
    IN  /\ WithinMaxScore(r.scores)
        /\ call' = [op |-> "switchToNextProxy", before |-> currentProxy,
                    pool |-> Len(proxies)]
        /\ proxyHealthScores' = r.scores
        /\ probes' = r.probes
        /\ ret' = r.accepted
        /\ currentProxy' = IF r.accepted # Null THEN r.accepted ELSE currentProxy
        /\ UNCHANGED <<proxies, loaded, bestProxy>>
        /\ UNCHANGED <<optVars, botVars, qVars, kaVars>>

-----------------------------------------------------------------------------
(* ProxyManager: keep-alive timer and connectivity checks *)

\* most keep-alive ticks in flight at once that the model follows
MaxInFlight == 2
\* identities of timer handles the runtime hands out
MaxTimers == 2

\* testTcpConnectivity: const timeout = 1500
TcpTimeoutMs == 1500
\* testHttpConnectivity: get(..., { timeout: 2500 })
HttpTimeoutMs == 2500

\* a Timeout object
Timer(id) == [timer |-> id]

Timers == {Timer(id) : id \in 1..MaxTimers}

\* setInterval returns a new Timeout object: one that is neither live nor
\* the one still stored
FreshTimer(live, handle) ==
    CHOOSE t \in Timers : t \notin live /\ t # handle

HasFreshTimer(live, handle) == \E t \in Timers : t \notin live /\ t # handle

\* startKeepAlive()
StartKeepAlive ==
    /\ call' = [op |-> "startKeepAlive", before |-> currentProxy, pool |-> Len(proxies),
                handle |-> keepAliveInterval]
    /\ ret' = Null
    /\ probes' = <<>>
    /\ IF ~keepAliveEnabled \/ keepAliveInterval # Null
       THEN UNCHANGED <<keepAliveInterval, pmTimers>>
       ELSE /\ HasFreshTimer(pmTimers, keepAliveInterval)
            /\ LET id == FreshTimer(pmTimers, keepAliveInterval)
               IN  /\ keepAliveInterval' = id
                   /\ pmTimers' = pmTimers \cup {id}
    /\ UNCHANGED <<pmPings, lastPing, optVars, botVars, qVars, pmVars>>

\* a stop that nulls the handle and leaves the timer running
StopKeepAliveWithoutClear ==
    /\ call' = [op |-> "stopKeepAlive", before |-> currentProxy, pool |-> Len(proxies),
                handle |-> keepAliveInterval, inFlight |-> BagCardinality(pmPings)]
    /\ ret' = Null
    /\ probes' = <<>>
    /\ keepAliveInterval' = Null
    /\ UNCHANGED <<pmTimers, pmPings, lastPing, optVars, botVars, qVars, pmVars>>

\* stopKeepAlive()
StopKeepAlive ==
    /\ call' = [op |-> "stopKeepAlive", before |-> currentProxy, pool |-> Len(proxies),
                handle |-> keepAliveInterval, inFlight |-> BagCardinality(pmPings)]
    /\ ret' = Null
    /\ probes' = <<>>
    /\ IF keepAliveInterval # Null
       THEN /\ pmTimers' = pmTimers \ {keepAliveInterval}
            /\ keepAliveInterval' = Null
       ELSE UNCHANGED <<keepAliveInterval, pmTimers>>
    /\ UNCHANGED <<pmPings, lastPing, optVars, botVars, qVars, pmVars>>

\* a result that forgets the TCP check
KeepAliveResultWithoutTcp(tcpConnected, httpWorking) ==
    IF ~httpWorking THEN "http_failed" ELSE "healthy"

\* the value performAggressiveKeepAlivePing() returns
KeepAliveResult(tcpConnected, httpWorking) ==
    IF ~tcpConnected THEN "tcp_lost"
    ELSE IF ~httpWorking THEN "http_failed"
    ELSE "healthy"

\* what a settled ping leaves in lastPing: who started it, its result, the
\* outcome of its TCP check and of its HTTP check ("not_run", "passed" or
\* "failed"), the key whose score the HTTP check wrote and whether the
\* penalty met the floor
Settled(origin, tcpConnected, http, key, floored) ==
    [origin  |-> origin,
     result  |-> KeepAliveResult(tcpConnected, http = "passed"),
     tcp     |-> tcpConnected,
     http    |-> http,
     key     |-> key,
     floored |-> floored]

\* a keep-alive ping in flight: what it awaits, and the relay the awaited
\* socket or request was built for
Ping(phase, target) == [phase |-> phase, target |-> target]

\* a tick started while an earlier one is in flight needs an interval no
\* longer than the longest tick: the TCP timeout plus the request timeout
TicksCanOverlap == keepAliveMs <= TcpTimeoutMs + HttpTimeoutMs

\* the setInterval callback runs: with a current relay it starts
\* performAggressiveKeepAlivePing, whose TCP connect is then in flight
KeepAliveTick ==
    /\ pmTimers # {}
    /\ BagCardinality(pmPings) < MaxInFlight
    /\ TicksCanOverlap \/ pmPings = EmptyBag
    /\ IF currentProxy # Null
       THEN pmPings' = pmPings (+) SetToBag({Ping("tcp", currentProxy)})
       ELSE UNCHANGED pmPings
    /\ UNCHANGED <<keepAliveInterval, pmTimers, lastPing, optVars, botVars, qVars, pmVars, obsVars>>

\* testTcpConnectivity() of a tick resolves true: testHttpConnectivity()
\* starts, and its request goes to the relay that is current now
TcpConnected(q) ==
    /\ BagIn(q, pmPings)
    /\ q.phase = "tcp"
    /\ pmPings' = (pmPings (-) SetToBag({q}))
                    (+) SetToBag({Ping("http", currentProxy)})
    /\ UNCHANGED <<keepAliveInterval, pmTimers, lastPing, optVars, botVars, qVars, pmVars, obsVars>>

\* testTcpConnectivity() of a tick resolves false: tcp_lost
TcpLost(q) ==
    /\ BagIn(q, pmPings)
    /\ q.phase = "tcp"
    /\ pmPings' = pmPings (-) SetToBag({q})
    /\ lastPing' = Settled("tick", FALSE, "not_run", Null, FALSE)
    /\ UNCHANGED <<keepAliveInterval, pmTimers, optVars, botVars, qVars, pmVars, obsVars>>

\* validateStatus: (status) => status < 400; no response (0) rejects as well
RequestRejects(status) == status = 0 \/ ~(status < 400)

\* the score after a healthy check: + 1
HealthyScore(score) == score + 1

\* the score after a check that threw: Math.max(0, score - 3)
ErrorScore(score) == Max(0, score - 3)

\* the score after a response that is not a success: Math.max(0, score - 2)
UnsuccessfulScore(score) == Max(0, score - 2)

\* the body of testHttpConnectivity() after its request settled with status:
\* the key is read from cur, the relay that is current when the request settles
HttpScores(cur, scores, status) ==
    LET key == KeyOf(cur)
        old == ScoreOf(scores, key)
    IN  IF RequestRejects(status)
        THEN MapSet(scores, key, ErrorScore(old))
        ELSE IF status < 400
             THEN MapSet(scores, key, HealthyScore(old))
             ELSE MapSet(scores, key, UnsuccessfulScore(old))

HttpWorking(status) == ~RequestRejects(status) /\ status < 400

\* what one check leaves in lastPing
PingResult(origin, cur, scores, status) ==
    Settled(origin, TRUE, IF HttpWorking(status) THEN "passed" ELSE "failed",
            KeyOf(cur), ~HttpWorking(status) /\ ScoreOf(scores, KeyOf(cur)) < 3)

\* testHttpConnectivity() of a tick settles
HttpChecked(q, status) ==
    /\ BagIn(q, pmPings)
    /\ q.phase = "http"
    /\ WithinMaxScore(HttpScores(currentProxy, proxyHealthScores, status))
    /\ proxyHealthScores' = HttpScores(currentProxy, proxyHealthScores, status)
    /\ pmPings' = pmPings (-) SetToBag({q})
    /\ lastPing' = PingResult("tick", currentProxy, proxyHealthScores, status)
    /\ UNCHANGED <<proxies, loaded, bestProxy, currentProxy>>
    /\ UNCHANGED <<keepAliveInterval, pmTimers, optVars, botVars, qVars, obsVars>>

\* the outcomes of a request: a success, an error status, no response
HttpStatuses == {200, 404, 0}

\* pings started by one warmUpConnection(): for (let i = 0; i < 5; i++)
WarmUpBurst == 5

\* the outcome of a ping whose TCP connect fails: no request is made
TcpLostOutcome == -1

\* the pings of warmUpConnection() on the relay cur, with outcomes burst (the
\* status of the request, or TcpLostOutcome), from ping i on
RECURSIVE WarmUpConnection(_, _, _, _)
WarmUpConnection(cur, scores, burst, i) ==
    IF i > Len(burst) THEN scores
    ELSE WarmUpConnection(cur,
                          IF burst[i] = TcpLostOutcome THEN scores
                          ELSE HttpScores(cur, scores, burst[i]),
                          burst, i + 1)

\* a validation that goes on to the HTTP check and the warm-up whatever the
\* TCP connect gave
ContinuesAlways(tcpOk) == TRUE

\* if (!tcpOk) { ...; this.switchToNextProxy(); return }: the HTTP check and
\* the warm-up are reached only after a TCP connect that succeeded
ContinuesAfterTcp(tcpOk) == tcpOk

\* setCurrentProxy(proxy) with the validateAndWarmUpProxy() it starts: the
\* relay becomes current; when the TCP connect fails switchToNextProxy() runs
\* and the validation returns; otherwise the HTTP check runs and, whatever its
\* result, the warm-up burst.  The call is observed with the relay it was
\* given, the result of the TCP connect and the numbers of switches, HTTP
\* checks and warm-up pings the validation ran
SetCurrentProxy(proxy, tcpOk, outs, status, burst) ==
    LET switched == IF tcpOk
                    THEN [scores |-> proxyHealthScores, accepted |-> Null,
                          probes |-> <<>>]
                    ELSE SwitchOutcome(proxy, proxyHealthScores, outs)
        goesOn   == ContinuesAfterTcp(tcpOk)
        checked  == IF goesOn THEN HttpScores(proxy, switched.scores, status)
                    ELSE switched.scores
        warmed   == IF goesOn THEN WarmUpConnection(proxy, checked, burst, 1)
                    ELSE checked
    IN  /\ WithinMaxScore(warmed)
        /\ call' = [op |-> "setCurrentProxy", before |-> currentProxy,
                    pool |-> Len(proxies), proxy |-> proxy, tcp |-> tcpOk,
                    switches |-> IF tcpOk THEN 0 ELSE 1,
                    httpChecks |-> IF goesOn THEN 1 ELSE 0,
                    warmUps |-> IF goesOn THEN Len(burst) ELSE 0]
        /\ ret' = Null
        /\ proxyHealthScores' = warmed
        /\ probes' = switched.probes
        /\ currentProxy' = IF switched.accepted # Null THEN switched.accepted
                           ELSE proxy
        /\ lastPing' = IF goesOn
                       THEN PingResult("validate", proxy, switched.scores, status)
                       ELSE [Settled("validate", FALSE, "not_run", Null, FALSE)
                                EXCEPT !.result = "tcp_rejected"]
        /\ UNCHANGED <<proxies, loaded, bestProxy>>
        /\ UNCHANGED <<keepAliveInterval, pmTimers, pmPings, optVars, botVars, qVars>>

-----------------------------------------------------------------------------
(* ProxyManager: quality signals from one fresh probe of the current relay *)

\* getConnectionQuality() when pingProxy returns responseTime
ConnectionQuality(responseTime) ==
    IF responseTime < 2000 THEN "excellent"
    ELSE IF responseTime < 5000 THEN "good"
    ELSE IF responseTime < 10000 THEN "poor"
    ELSE "critical"

\* Math.round(x / d) for x >= 0, d > 0
RoundDiv(x, d) == (2 * x + d) \div (2 * d)

\* Math.round(baseTimeout * Math.max(1, Math.min(3, responseTime / 2000)))
AdaptiveTimeout(baseTimeout, responseTime) ==
    IF responseTime <= 2000 THEN baseTimeout
    ELSE IF responseTime >= 6000 THEN 3 * baseTimeout
    ELSE RoundDiv(baseTimeout * responseTime, 2000)

\* getConnectionQuality(): pingProxy never throws, so the catch is never taken
GetConnectionQuality(responseTime) ==
    /\ call' = [op |-> "getConnectionQuality", before |-> currentProxy,
                pool |-> Len(proxies)]
    /\ IF currentProxy = Null
       THEN /\ ret' = [quality |-> "excellent"]
            /\ probes' = <<>>
       ELSE /\ ret' = [quality |-> ConnectionQuality(responseTime)]
            /\ probes' = <<[index |-> 0, relay |-> currentProxy, rt |-> responseTime]>>
    /\ UNCHANGED <<optVars, botVars, qVars, pmVars, kaVars>>

\* getConnectionAdaptiveTimeout(baseTimeout): pingProxy never throws, so the
\* catch is never taken and a failed probe falls through to the last return
GetConnectionAdaptiveTimeout(baseTimeout, responseTime) ==
    /\ call' = [op |-> "getConnectionAdaptiveTimeout", before |-> currentProxy,
                pool |-> Len(proxies), baseTimeout |-> baseTimeout]
    /\ IF currentProxy = Null
       THEN /\ ret' = [timeout |-> baseTimeout]
            /\ probes' = <<>>
       ELSE /\ ret' = [timeout |-> IF responseTime > 0
                                   THEN AdaptiveTimeout(baseTimeout, responseTime)
                                   ELSE baseTimeout]
            /\ probes' = <<[index |-> 0, relay |-> currentProxy, rt |-> responseTime]>>
    /\ UNCHANGED <<optVars, botVars, qVars, pmVars, kaVars>>

-----------------------------------------------------------------------------
(* QuantumProxyManager *)

\* connection objects the model follows
MaxConnections == 2
\* initializeQuantumConnection calls in flight at once that the model follows
MaxInits == 1

\* constructor(private targetDomain = "act.playcfl.com")
TargetDomain == "act.playcfl.com"
\* private dnsCacheTTL = 300000
DnsCacheTTL == 300000
\* private connectionPoolSize = 3
ConnectionPoolSize == 3
\* setInterval(..., 10000)
QuantumKeepAliveMs == 10000
\* testTcpConnectivity: const timeout = 1500
QuantumTcpTimeoutMs == 1500
\* testHttpConnectivity: get(..., { timeout: 3000 })
QuantumHttpTimeoutMs == 3000

\* for (let i = 0; i < 5; i++): protocol-level samples of one measurement
MeasureSamples == 5

\* httpSamples.reduce((a, b) => a + b)
RECURSIVE SumOf(_)
SumOf(samples) ==
    IF samples = <<>> THEN 0 ELSE Head(samples) + SumOf(Tail(samples))

\* Math.abs
Abs(x) == IF x < 0 THEN -x ELSE x

\* calculateJitter: totalJitter, the sum of the differences of neighbours
RECURSIVE TotalJitter(_)
TotalJitter(samples) ==
    IF Len(samples) < 2 THEN 0
    ELSE Abs(samples[2] - samples[1]) + TotalJitter(Tail(samples))

\* a stability without the floor of the latency score and of the jitter score
StabilityUnfloored(samples) ==
    LET n == Len(samples)
        m == IF n < 2 THEN 1 ELSE n - 1
        D == 10 * n * m
        total == (100 * D - SumOf(samples) * m)
                   + (100 * D - 100 * TotalJitter(samples) * n)
                   + (100 - (MeasureSamples - n) * 20) * D
    IN  IF total >= 0 THEN (2 * total + 3 * D) \div (6 * D)
        ELSE -((2 * (-total) + 3 * D) \div (6 * D))

\* Math.round((latencyScore + jitterScore + lossScore) / 3) for the samples
\* of the requests that succeeded (at least one).  The three scores are kept
\* as numerators over the common denominator D: latency is the sum over n,
\* jitter is totalJitter over n - 1 (0 for one sample)
Stability(samples) ==
    LET n == Len(samples)
        m == IF n < 2 THEN 1 ELSE n - 1
        D == 10 * n * m
        latencyScore == Max(0, 100 * D - SumOf(samples) * m)
        jitterScore  == Max(0, 100 * D - 100 * TotalJitter(samples) * n)
        lossScore    == (100 - (MeasureSamples - n) * 20) * D
    IN  (2 * (latencyScore + jitterScore + lossScore) + 3 * D) \div (6 * D)

\* measureConnectionQuality(proxy): tcpSuccess is the result of the TCP
\* handshake, samples the times of the protocol-level requests that
\* succeeded, of 5 made.  latency and jitter are kept as <<numerator,
\* denominator>>
MeasureConnectionQuality(tcpSuccess, samples) ==
    LET n == Len(samples)
        zero == [latency |-> <<0, 1>>, jitter |-> <<0, 1>>, packetLoss |-> 0,
                 stability |-> 0]
    IN  IF ~tcpSuccess THEN zero
        ELSE IF n = 0 THEN [zero EXCEPT !.stability = 10]
        ELSE [latency    |-> <<SumOf(samples), n>>,
              jitter     |-> IF n < 2 THEN <<0, 1>>
                             ELSE <<TotalJitter(samples), n - 1>>,
              packetLoss |-> (MeasureSamples - n) * 20,
              stability  |-> Stability(samples)]

\* the clock is read at multiples of half the life of a cache entry
ClockStep == DnsCacheTTL \div 2

\* the number of clock steps of a run
MaxClockSteps == 2

\* `${proxyConfig.protocol}://${proxyConfig.host}:${proxyConfig.port}`
ConnectionKey(cfg) == <<cfg.protocol, cfg.host, cfg.port>>

\* the address a dnsLookup resolves to, as an object
Address(a) == [address |-> a]

\* a cache read that ignores the expiry of the entry
CachedIpIgnoringExpiry(domain) ==
    IF domain \in DOMAIN dnsCache
    THEN dnsCache[domain].ip ELSE Null

\* quantumDNSResolve(domain) up to its await: the cached ip when the entry has
\* not expired, else null (a lookup is needed)
CachedIp(domain) ==
    IF domain \in DOMAIN dnsCache /\ dnsCache[domain].expires > now
    THEN dnsCache[domain].ip ELSE Null

\* const cached = this.dnsCache.get(domain)
CachedEntry(domain) ==
    IF domain \in DOMAIN dnsCache THEN dnsCache[domain] ELSE Null

\* a return of quantumDNSResolve(domain) as it is observed: the entry cached
\* it read when it was called, the time at of the return, whether it made a
\* lookup and whether the lookup resolved
DnsResolveCall(cached, lookedUp, resolved) ==
    [op |-> "quantumDNSResolve", before |-> currentConnection, pool |-> 0,
     cached |-> cached, at |-> now, lookedUp |-> lookedUp, resolved |-> resolved]

\* initializeQuantumConnection(proxyConfig) up to its first await: with a
\* fresh cache entry quantumDNSResolve returns the cached ip and the call goes
\* on to the security assessment, else the dnsLookup is in flight and the call
\* keeps the entry it read in cached
InitializeQuantumConnection(proxyConfig) ==
    /\ BagCardinality(qInits) < MaxInits
    /\ IF CachedIp(TargetDomain) # Null
       THEN /\ qInits' = qInits (+) SetToBag({[proxy |-> proxyConfig,
                                               phase |-> "connect",
                                               cached |-> Null]})
            /\ call' = DnsResolveCall(CachedEntry(TargetDomain), FALSE, FALSE)
            /\ ret' = CachedIp(TargetDomain)
            /\ probes' = <<>>
       ELSE /\ qInits' = qInits (+) SetToBag({[proxy |-> proxyConfig,
                                               phase |-> "dns",
                                               cached |-> CachedEntry(TargetDomain)]})
            /\ UNCHANGED obsVars
    /\ UNCHANGED <<connections, connectionOrder, currentConnection, dnsCache, now, nextConnection,
                   qKeepAliveInterval, qTimers, qPings>>
    /\ UNCHANGED <<optVars, botVars, pmVars, kaVars>>

\* a fallback that takes only an entry that has not expired
UsesCachedUnexpired(cached) == cached # Null /\ cached.expires > now

\* catch (error) { if (cached) ... }: the entry read at the call is used
\* whatever its expiry
UsesCached(cached) == cached # Null

\* dnsLookup settles with lookup (an address, or null when it rejects): the
\* address is cached with the expiry now + TTL and returned; on a rejection
\* the ip of the entry read at the call is returned when there was one, else
\* the error reaches initializeQuantumConnection, which returns false
DnsLookupSettled(init, lookup) ==
    LET proceeds == (qInits (-) SetToBag({init}))
                      (+) SetToBag({[init EXCEPT !.phase = "connect",
                                                 !.cached = Null]})
    IN  /\ BagIn(init, qInits)
        /\ init.phase = "dns"
        /\ probes' = <<>>
        /\ IF lookup # Null
           THEN /\ dnsCache' = MapSet(dnsCache, TargetDomain,
                                      [ip |-> lookup, expires |-> now + DnsCacheTTL])
                /\ qInits' = proceeds
                /\ call' = DnsResolveCall(init.cached, TRUE, TRUE)
                /\ ret' = lookup
           ELSE IF UsesCached(init.cached)
                THEN /\ qInits' = proceeds
                     /\ call' = DnsResolveCall(init.cached, TRUE, FALSE)
                     /\ ret' = init.cached.ip
                     /\ UNCHANGED dnsCache
                ELSE /\ qInits' = qInits (-) SetToBag({init})
                     /\ call' = [op |-> "initializeQuantumConnection",
                                 before |-> currentConnection, pool |-> 0,
                                 secured |-> FALSE, quantumTest |-> FALSE,
                                 dnsFailed |-> TRUE, cached |-> init.cached]
                     /\ ret' = [ok |-> FALSE]
                     /\ UNCHANGED dnsCache
        /\ UNCHANGED <<connections, connectionOrder, currentConnection, now, nextConnection,
                       qKeepAliveInterval, qTimers, qPings>>
        /\ UNCHANGED <<optVars, botVars, pmVars, kaVars>>

\* the outcomes of establishSecureConnection: it resolves with the security
\* metrics (TRUE) or throws an acquisition-level error (FALSE)
AuditOutcomes == BOOLEAN

\* a registration made before the acceptance test has been looked at
RegisteredUntested(connection, secured, quantumTest) ==
    IF secured
    THEN MapSet(connections, ConnectionKey(connection.proxy), connection)
    ELSE connections

\* this.connections.set(connectionKey, connection): reached only when
\* establishSecureConnection did not throw and the acceptance test passed
RegisteredConnections(connection, secured, quantumTest) ==
    IF secured /\ quantumTest
    THEN MapSet(connections, ConnectionKey(connection.proxy), connection)
    ELSE connections

\* the rest of initializeQuantumConnection: the security assessment (secured
\* is an outcome of AuditOutcomes), the measured metrics, the pre-warmed pool
\* of pooled validated handles and the acceptance test (quantumTest is its
\* result, looked at only after an assessment that did not throw); only a
\* passed test registers the connection and makes it current.  The connection
\* is created after the assessment, with lastUsed: Date.now()
QuantumConnectionSettled(init, secured, metrics, pooled, quantumTest) ==
    LET connection == [id |-> nextConnection, proxy |-> init.proxy,
                       metrics |-> metrics, lastUsed |-> now,
                       connectionPool |-> [i \in 1..pooled |-> i]]
        accepted == secured /\ quantumTest
    IN  /\ BagIn(init, qInits)
        /\ init.phase = "connect"
        /\ accepted => nextConnection <= MaxConnections
        /\ qInits' = qInits (-) SetToBag({init})
        /\ call' = [op |-> "initializeQuantumConnection",
                    before |-> currentConnection,
                    pool |-> IF secured THEN pooled ELSE 0,
                    secured |-> secured, quantumTest |-> quantumTest,
                    dnsFailed |-> FALSE, cached |-> Null]
        /\ probes' = <<>>
        /\ connections' = RegisteredConnections(connection, secured, quantumTest)
        /\ connectionOrder' = IF ConnectionKey(init.proxy) \in DOMAIN connections' \ DOMAIN connections
                              THEN Append(connectionOrder, ConnectionKey(init.proxy))
                              ELSE connectionOrder
        /\ currentConnection' = IF accepted THEN connection ELSE currentConnection
        /\ nextConnection' = IF accepted THEN nextConnection + 1 ELSE nextConnection
        /\ ret' = [ok |-> accepted]
        /\ UNCHANGED <<dnsCache, now, qKeepAliveInterval, qTimers, qPings>>
        /\ UNCHANGED <<optVars, botVars, pmVars, kaVars>>

\* a clear() that leaves the map as it is
ClearedNothing(map) == map
\* this.dnsCache.clear(), this.connections.clear()
Cleared(map) == EmptyMap

\* a cleanup that keeps the current connection
NoConnectionKept == currentConnection
\* this.currentConnection = null
NoConnection == Null

\* cleanup(): the caches and the connections are cleared and the current
\* connection is dropped; the keep-alive timer is not touched
QuantumCleanup ==
    /\ call' = [op |-> "quantum.cleanup", before |-> currentConnection, pool |-> 0,
                handle |-> qKeepAliveInterval]
    /\ ret' = Null
    /\ probes' = <<>>
    /\ dnsCache' = Cleared(dnsCache)
    /\ connections' = Cleared(connections)
    /\ connectionOrder' = IF connections' = EmptyMap THEN <<>> ELSE connectionOrder
    /\ currentConnection' = NoConnection
    /\ UNCHANGED <<now, nextConnection, qInits, qKeepAliveInterval, qTimers, qPings>>
    /\ UNCHANGED <<optVars, botVars, pmVars, kaVars>>

\* Date.now() moves on by dt milliseconds
AdvanceClock(dt) ==
    /\ now + dt <= MaxClockSteps * ClockStep
    /\ now' = now + dt
    /\ UNCHANGED <<connections, connectionOrder, currentConnection, dnsCache, nextConnection, qInits,
                   qKeepAliveInterval, qTimers, qPings>>
    /\ UNCHANGED <<optVars, botVars, pmVars, kaVars, obsVars>>

\* connectionPool.shift() with no push of the handle taken
ShiftOnly(pool) == Tail(pool)

\* connectionPool.shift() and connectionPool.push(connection): the handle at
\* the front goes to the back
ShiftPush(pool) == Append(Tail(pool), Head(pool))

\* the handle of connection.axiosInstance, which is not a member of the pool
AxiosInstance == 0

\* getOptimizedConnection(): null without a current connection; else lastUsed
\* is set and the handle at the front of the pool is returned and moved to the
\* back, or axiosInstance when the pool is empty.  The current connection is an
\* object the connections map may hold as well
GetOptimizedConnection ==
    /\ call' = [op |-> "getOptimizedConnection", before |-> currentConnection,
                pool |-> IF currentConnection = Null THEN 0
                         ELSE Len(currentConnection.connectionPool)]
    /\ probes' = <<>>
    /\ IF currentConnection = Null
       THEN /\ ret' = Null
            /\ UNCHANGED <<connections, connectionOrder, currentConnection>>
       ELSE LET pool == currentConnection.connectionPool
                used == [currentConnection EXCEPT
                           !.lastUsed = now,
                           !.connectionPool = IF pool # <<>> THEN ShiftPush(pool)
                                              ELSE pool]
            IN  /\ ret' = [handle |-> IF pool # <<>> THEN Head(pool)
                                      ELSE AxiosInstance]
                /\ currentConnection' = used
                /\ connections' = [k \in DOMAIN connections |->
                                     IF connections[k].id = currentConnection.id
                                     THEN used ELSE connections[k]]
                /\ UNCHANGED connectionOrder
    /\ UNCHANGED <<dnsCache, now, nextConnection, qInits, qKeepAliveInterval,
                   qTimers, qPings>>
    /\ UNCHANGED <<optVars, botVars, pmVars, kaVars>>

\* the for loop of switchToBestProxy over connections.values() from the i-th
\* key inserted on: a connection replaces the best one only when its stability
\* is strictly above bestScore
RECURSIVE BestConnection(_, _, _)
BestConnection(i, best, bestScore) ==
    IF i > Len(connectionOrder) THEN best
    ELSE LET connection == connections[connectionOrder[i]]
         IN  IF connection.metrics.stability > bestScore
             THEN BestConnection(i + 1, connection, connection.metrics.stability)
             ELSE BestConnection(i + 1, best, bestScore)

\* a switch that compares nothing and stays
SwitchesNever(best) == FALSE
\* if (bestConnection && bestConnection !== this.currentConnection)
SwitchesTo(best) == best # Null /\ best # currentConnection

\* switchToBestProxy(): false with no connection; else the first connection
\* of the highest stability becomes current, and true is returned, when it
\* is not the current one already
SwitchToBestProxy ==
    LET best == BestConnection(1, Null, -1)
        switches == Len(connectionOrder) # 0 /\ SwitchesTo(best)
    IN  /\ call' = [op |-> "switchToBestProxy", before |-> currentConnection,
                    pool |-> Len(connectionOrder)]
        /\ probes' = <<>>
        /\ ret' = [ok |-> switches]
        /\ currentConnection' = IF switches THEN best ELSE currentConnection
        /\ UNCHANGED <<connections, connectionOrder, dnsCache, now, nextConnection,
                       qInits, qKeepAliveInterval, qTimers, qPings>>
        /\ UNCHANGED <<optVars, botVars, pmVars, kaVars>>

\* a start that leaves the running timer alone and stores a new one
QuantumStartKeepAliveWithoutClear ==
    /\ HasFreshTimer(qTimers, qKeepAliveInterval)
    /\ call' = [op |-> "quantum.startKeepAlive", before |-> currentConnection,
                pool |-> 0, handle |-> qKeepAliveInterval]
    /\ ret' = Null
    /\ probes' = <<>>
    /\ qKeepAliveInterval' = FreshTimer(qTimers, qKeepAliveInterval)
    /\ qTimers' = qTimers \cup {FreshTimer(qTimers, qKeepAliveInterval)}
    /\ UNCHANGED <<connections, connectionOrder, currentConnection, dnsCache, now, nextConnection,
                   qInits, qPings>>
    /\ UNCHANGED <<optVars, botVars, pmVars, kaVars>>

\* startKeepAlive(): a running timer is cleared, then a new one is stored
QuantumStartKeepAlive ==
    /\ HasFreshTimer(qTimers, qKeepAliveInterval)
    /\ call' = [op |-> "quantum.startKeepAlive", before |-> currentConnection,
                pool |-> 0, handle |-> qKeepAliveInterval]
    /\ ret' = Null
    /\ probes' = <<>>
    /\ qKeepAliveInterval' = FreshTimer(qTimers, qKeepAliveInterval)
    /\ qTimers' = (qTimers \ {qKeepAliveInterval})
                    \cup {FreshTimer(qTimers, qKeepAliveInterval)}
    /\ UNCHANGED <<connections, connectionOrder, currentConnection, dnsCache, now, nextConnection,
                   qInits, qPings>>
    /\ UNCHANGED <<optVars, botVars, pmVars, kaVars>>

\* stopKeepAlive()
QuantumStopKeepAlive ==
    /\ call' = [op |-> "quantum.stopKeepAlive", before |-> currentConnection,
                pool |-> 0, handle |-> qKeepAliveInterval,
                inFlight |-> BagCardinality(qPings)]
    /\ ret' = Null
    /\ probes' = <<>>
    /\ IF qKeepAliveInterval # Null
       THEN /\ qTimers' = qTimers \ {qKeepAliveInterval}
            /\ qKeepAliveInterval' = Null
       ELSE UNCHANGED <<qKeepAliveInterval, qTimers>>
    /\ UNCHANGED <<connections, connectionOrder, currentConnection, dnsCache, now, nextConnection,
                   qInits, qPings>>
    /\ UNCHANGED <<optVars, botVars, pmVars, kaVars>>

\* the interval is fixed and longer than the longest tick, so a tick has
\* settled before the next one runs
QuantumTicksCanOverlap ==
    QuantumKeepAliveMs <= QuantumTcpTimeoutMs + QuantumHttpTimeoutMs

\* the setInterval callback runs: with a current connection it starts
\* performAggressiveKeepAlivePing, whose TCP connect is then in flight
QuantumKeepAliveTick ==
    /\ qTimers # {}
    /\ BagCardinality(qPings) < MaxInFlight
    /\ QuantumTicksCanOverlap \/ qPings = EmptyBag
    /\ IF currentConnection # Null
       THEN qPings' = qPings (+) SetToBag({Ping("tcp", currentConnection.proxy)})
       ELSE UNCHANGED qPings
    /\ UNCHANGED <<connections, connectionOrder, currentConnection, dnsCache, now, nextConnection,
                   qInits, qKeepAliveInterval, qTimers>>
    /\ UNCHANGED <<optVars, botVars, pmVars, kaVars, obsVars>>

\* testTcpConnectivity() of a tick resolves true: testHttpConnectivity() runs;
\* with no current connection left its first line throws and the tick
\* returns http_failed, else its request is in flight
QuantumTcpConnected(q) ==
    /\ BagIn(q, qPings)
    /\ q.phase = "tcp"
    /\ IF currentConnection = Null
       THEN /\ qPings' = qPings (-) SetToBag({q})
            /\ lastPing' = Settled("quantum", TRUE, "failed", Null, FALSE)
       ELSE /\ qPings' = (qPings (-) SetToBag({q}))
                           (+) SetToBag({Ping("http", currentConnection.proxy)})
            /\ UNCHANGED lastPing
    /\ UNCHANGED <<connections, connectionOrder, currentConnection, dnsCache, now, nextConnection,
                   qInits, qKeepAliveInterval, qTimers>>
    /\ UNCHANGED <<optVars, botVars, pmVars, keepAliveInterval, pmTimers, pmPings, obsVars>>

\* testTcpConnectivity() of a tick resolves false: tcp_lost
QuantumTcpLost(q) ==
    /\ BagIn(q, qPings)
    /\ q.phase = "tcp"
    /\ qPings' = qPings (-) SetToBag({q})
    /\ lastPing' = Settled("quantum", FALSE, "not_run", Null, FALSE)
    /\ UNCHANGED <<connections, connectionOrder, currentConnection, dnsCache, now, nextConnection,
                   qInits, qKeepAliveInterval, qTimers>>
    /\ UNCHANGED <<optVars, botVars, pmVars, keepAliveInterval, pmTimers, pmPings, obsVars>>

\* testHttpConnectivity() of a tick settles with status
QuantumHttpChecked(q, status) ==
    /\ BagIn(q, qPings)
    /\ q.phase = "http"
    /\ qPings' = qPings (-) SetToBag({q})
    /\ lastPing' = Settled("quantum", TRUE,
                            IF HttpWorking(status) THEN "passed" ELSE "failed",
                            Null, FALSE)
    /\ UNCHANGED <<connections, connectionOrder, currentConnection, dnsCache, now, nextConnection,
                   qInits, qKeepAliveInterval, qTimers>>
    /\ UNCHANGED <<optVars, botVars, pmVars, keepAliveInterval, pmTimers, pmPings, obsVars>>

-----------------------------------------------------------------------------
(* Specification of the selector: load, then any number of selections *)

SelRelays == <<R1, R2>>
SelOutcomes == {-1, 0, 200, 500}

\* the bot after its constructor: this.config = loadConfig(), with the
\* configured useProxy
InitBot(mode) ==
    /\ useProxy = mode
    /\ botAt = "idle"

InitPM ==
    /\ proxies = <<>>
    /\ loaded = FALSE
    /\ bestProxy = Null
    /\ currentProxy = Null
    /\ proxyHealthScores = EmptyMap
    /\ keepAliveInterval = Null
    /\ pmTimers = {}
    /\ pmPings = EmptyBag
    /\ lastPing = Null
    /\ connections = EmptyMap
    /\ connectionOrder = <<>>
    /\ currentConnection = Null
    /\ dnsCache = EmptyMap
    /\ now = 0
    /\ nextConnection = 1
    /\ qInits = EmptyBag
    /\ qKeepAliveInterval = Null
    /\ qTimers = {}
    /\ qPings = EmptyBag
    /\ call = NoCall
    /\ ret = Null
    /\ probes = <<>>

\* keepAliveEnabled: true, keepAliveInterval: 10000
DefaultKeepAliveMs == 10000

InitSel ==
    /\ InitPM
    /\ InitBot(4)
    /\ testCount \in 1..MaxTestCount
    /\ keepAliveEnabled = TRUE
    /\ keepAliveMs = DefaultKeepAliveMs

\* getWorkingProxy() with the shuffle and the probe outcomes drawn from outcomes;
\* nothing is drawn when the call issues no probe
GetWorkingProxyAny(outcomes) ==
    IF Len(proxies) > 0 /\ bestProxy = Null
    THEN \E perm \in FirstOfShuffles(Len(proxies), EffectiveTestCount) :
           \E outs \in [1..EffectiveTestCount -> outcomes] :
              GetWorkingProxy(perm, outs)
    ELSE GetWorkingProxy(<<>>, <<>>)

\* the outcomes of the n probes of one switch: one per candidate up to the
\* first that passes (the candidates after it are not probed)
SwitchOutcomes(n, outcomes) ==
    {outs \in [1..n -> outcomes] :
        \A i \in 1..n : (\E j \in 1..(i - 1) : Passes(outs[j])) => outs[i] = -1}

\* switchToNextProxy() with the outcomes of the probes it issues drawn from
\* outcomes
SwitchToNextProxyAny(outcomes) ==
    \E outs \in SwitchOutcomes(SwitchProbes(currentProxy), outcomes) :
        SwitchToNextProxy(outs)

\* requests of a burst that succeed before the others get no response
BurstSuccesses == {0, 2, WarmUpBurst}

\* the outcomes of a warm-up burst: every connect fails, or the first a
\* requests succeed and the others get no response
BurstOutcomes ==
    {[i \in 1..WarmUpBurst |-> TcpLostOutcome]}
        \cup {[i \in 1..WarmUpBurst |-> IF i <= a THEN 200 ELSE 0] : a \in BurstSuccesses}

\* setCurrentProxy(proxy) with the outcomes of the checks it runs: of the
\* switch when the TCP connect fails, of the request and of the burst otherwise
SetCurrentProxyAny(proxy, outcomes) ==
    \/ \E outs \in SwitchOutcomes(SwitchProbes(proxy), outcomes) :
          SetCurrentProxy(proxy, FALSE, outs, 0, <<>>)
    \/ \E status \in HttpStatuses : \E burst \in BurstOutcomes :
          SetCurrentProxy(proxy, TRUE, <<>>, status, burst)

NextSel ==
    \/ \E pool \in PoolsUpTo(SelRelays, MaxSelPool) : LoadProxies(pool)
    \/ GetWorkingProxyAny(SelOutcomes)

SpecSel == InitSel /\ [][NextSel]_vars

-----------------------------------------------------------------------------
(* Claims about the selector (checked under SpecSel) *)

\* the last completed call is a getWorkingProxy that ran findBestProxy
SelectionRan == call.op = "getWorkingProxy" /\ probes # <<>>

\* a probe counts as successful when findBestProxy keeps it (responseTime > 0)
Succeeded(p) == p.rt > 0

SomeProbeSucceeded == \E i \in 1..Len(probes) : Succeeded(probes[i])

\* C2: with a non-empty pool getWorkingProxy returns a relay, never null: the
\* selected best relay when a sampled probe succeeded (in this call, or in the
\* earlier call whose selection is still held), otherwise the pool entry at
\* index 0; the returned relay is the current relay.
C2_GetWorkingProxyAlwaysReturns ==
    (call.op = "getWorkingProxy" /\ call.pool > 0) =>
        /\ ret # Null
        /\ \E i \in 1..Len(proxies) : Bare(ret) = proxies[i]
        /\ currentProxy = ret
        /\ (SelectionRan /\ SomeProbeSucceeded) =>
              /\ ret = bestProxy
              /\ \E i \in 1..Len(probes) :
                    /\ Succeeded(probes[i])
                    /\ ret = WithResponseTime(probes[i].relay, probes[i].rt)
        /\ (SelectionRan /\ ~SomeProbeSucceeded) =>
              /\ bestProxy = Null
              /\ ret = proxies[1]
        /\ ~SelectionRan => (bestProxy # Null /\ ret = bestProxy)

\* C2 witness: every sampled probe failed and the relay at index 0, which was
\* not the last one probed, was returned and made current
C2_Witness ==
    /\ SelectionRan
    /\ ~SomeProbeSucceeded
    /\ Len(proxies) >= 2
    /\ proxies[1] # proxies[2]
    /\ probes[Len(probes)].index # 1
    /\ ret = proxies[1]
    /\ currentProxy = proxies[1]

\* the first probe, in probe order, with the least positive responseTime
FirstFastest ==
    CHOOSE j \in 1..Len(probes) :
        /\ Succeeded(probes[j])
        /\ \A i \in 1..Len(probes) :
              Succeeded(probes[i]) =>
                 \/ probes[j].rt < probes[i].rt
                 \/ (probes[j].rt = probes[i].rt /\ j <= i)

\* C3: one selection run probes exactly min(testCount, N) distinct pool
\* entries and, when a probe succeeded, selects the relay with the least
\* measured latency among the successful probes, the first probed on a tie.
C3_SelectsFastestOfKDistinct ==
    SelectionRan =>
        /\ Len(probes) = Min(testCount, Len(proxies))
        /\ \A i \in 1..Len(probes) :
              /\ probes[i].index \in 1..Len(proxies)
              /\ probes[i].relay = proxies[probes[i].index]
        /\ \A i, j \in 1..Len(probes) :
              probes[i].index = probes[j].index => i = j
        /\ SomeProbeSucceeded =>
              bestProxy = WithResponseTime(probes[FirstFastest].relay,
                                           probes[FirstFastest].rt)

\* C3 witness: the 2-relay pool of the end-to-end scenario, probed with
\* 500 ms and 200 ms: the 200 ms relay is selected
C3_Witness ==
    /\ SelectionRan
    /\ proxies = <<R1, R2>>
    /\ testCount = 2
    /\ probes = <<[index |-> 1, relay |-> R1, rt |-> 500],
                  [index |-> 2, relay |-> R2, rt |-> 200]>>
    /\ ret = WithResponseTime(R2, 200)

-----------------------------------------------------------------------------
(* Specification of switching: load, select, switch *)

SwRelays == <<R1, R2, R3>>
SwOutcomes == {-1, 500, 8000}

NextSwitch ==
    \/ \E pool \in PoolsUpTo(SwRelays, MaxSwPool) : LoadProxies(pool)
    \/ GetWorkingProxyAny({-1, 500})
    \/ SwitchToNextProxyAny(SwOutcomes)

InitSwitch ==
    /\ InitPM
    /\ InitBot(4)
    /\ testCount = 1
    /\ keepAliveEnabled = TRUE
    /\ keepAliveMs = DefaultKeepAliveMs

SpecSwitch == InitSwitch /\ [][NextSwitch]_vars

-----------------------------------------------------------------------------
(* Claims about switching (checked under SpecSwitch) *)

SwitchReturned == call.op = "switchToNextProxy"

\* C4: switchToNextProxy never returns a relay whose host:port key is the key
\* of the relay that was current when the call was made.
C4_SwitchNeverReturnsCurrentKey ==
    (SwitchReturned /\ ret # Null /\ call.before # Null) =>
        <<ret.host, ret.port>> # <<call.before.host, call.before.port>>

\* C4 witness: a switch returned a relay while the pool held two entries with
\* the key of the relay that was current
C4_Witness ==
    /\ SwitchReturned
    /\ ret # Null
    /\ call.before # Null
    /\ \E i, j \in 1..Len(proxies) :
          /\ i # j
          /\ KeyOf(proxies[i]) = KeyOf(call.before)
          /\ KeyOf(proxies[j]) = KeyOf(call.before)

\* the acceptance test as the specification words it: positive and below 8000 ms
ProbePassed(p) == p.rt > 0 /\ p.rt < 8000

\* C5: when no probed candidate passes (at most 3 are probed), or there is no
\* candidate other than the current relay, switchToNextProxy returns null and
\* the current relay is the one before the call.
C5_FailedSwitchKeepsCurrent ==
    (SwitchReturned /\ \A i \in 1..Len(probes) : ~ProbePassed(probes[i])) =>
        /\ ret = Null
        /\ currentProxy = call.before
        /\ Len(probes) <= 3

\* C5 witness: three candidates were probed, none passed (one of them at the
\* ceiling), and the relay that was current is still current
C5_Witness ==
    /\ SwitchReturned
    /\ Len(probes) = 3
    /\ \A i \in 1..3 : ~ProbePassed(probes[i])
    /\ \E i \in 1..3 : probes[i].rt = 8000
    /\ call.before # Null
    /\ ret = Null
    /\ currentProxy = call.before

-----------------------------------------------------------------------------
(* Specification of the health scores: switching and keep-alive checks *)

HealthRelays == <<R1, R2>>
\* the pool the health scores are followed on
HealthPools == {HealthRelays}

NextHealth ==
    \/ \E pool \in HealthPools : LoadProxies(pool)
    \/ SwitchToNextProxyAny({-1, 500})
    \/ StartKeepAlive
    \/ KeepAliveTick
    \/ \E r \in Range(HealthRelays) : SetCurrentProxyAny(r, {-1, 500})
    \/ \E q \in BagToSet(pmPings) : TcpConnected(q)
    \/ \E q \in BagToSet(pmPings) : TcpLost(q)
    \/ \E q \in BagToSet(pmPings) : \E status \in HttpStatuses : HttpChecked(q, status)

SpecHealth == InitSwitch /\ [][NextHealth]_vars

\* C1: the health score stored for any key is an integer >= 0, whatever
\* switches and TCP/HTTP checks have run and whatever their outcomes.
C1_HealthScoreNeverNegative ==
    \A k \in DOMAIN proxyHealthScores :
        proxyHealthScores[k] \in Int /\ proxyHealthScores[k] >= 0

\* C1 witness: a keep-alive check failed on a key whose score was below the
\* penalty, a switch then rejected a candidate, and both scores are 0
C1_Witness ==
    /\ lastPing # Null
    /\ lastPing.result = "http_failed"
    /\ lastPing.floored
    /\ proxyHealthScores[lastPing.key] = 0
    /\ call.op = "switchToNextProxy"
    /\ probes # <<>>
    /\ ~Passes(probes[1].rt)
    /\ proxyHealthScores[KeyOf(probes[1].relay)] = 0

-----------------------------------------------------------------------------
(* Specification of the quality signals: load, select, classify *)

\* latencies pingProxy returns: the failure sentinel, and values at and
\* around the class limits and the clamp limits
QualityLatencies == {-1, 1, 1999, 2000, 3000, 4999, 5000, 6000, 9999, 10000}
\* base timeouts passed by callers
BaseTimeouts == {1000, 15000}

NextQuality ==
    \/ \E pool \in PoolsUpTo(SelRelays, MaxSelPool) : LoadProxies(pool)
    \/ GetWorkingProxyAny({-1, 500})
    \/ \E rt \in QualityLatencies : GetConnectionQuality(rt)
    \/ \E base \in BaseTimeouts : \E rt \in QualityLatencies :
          GetConnectionAdaptiveTimeout(base, rt)

SpecQuality == InitSwitch /\ [][NextQuality]_vars

\* the last completed call probed the current relay
ProbedCurrent == call.before # Null /\ Len(probes) = 1

\* C6: getConnectionQuality, from one fresh probe of the current relay,
\* returns excellent below 2000 ms, good below 5000 ms, poor below 10000 ms,
\* and critical from 10000 ms on or when the probe fails (-1).
C6_QualityClasses ==
    (call.op = "getConnectionQuality" /\ ProbedCurrent) =>
        LET latency == probes[1].rt
        IN  ret.quality =
               IF latency = -1 \/ latency >= 10000 THEN "critical"
               ELSE IF latency < 2000 THEN "excellent"
               ELSE IF latency < 5000 THEN "good"
               ELSE "poor"

\* 2000 * clamp(latency / 2000, 1, 3)
Clamped(latency) == Max(2000, Min(6000, latency))

\* C7: getConnectionAdaptiveTimeout(base), with a current relay, returns
\* base * clamp(latency / 2000, 1, 3) (to the nearest millisecond) when the
\* fresh probe succeeds, and 2 * base when the probe fails.
C7_AdaptiveTimeout ==
    (call.op = "getConnectionAdaptiveTimeout" /\ ProbedCurrent) =>
        LET latency == probes[1].rt
            base    == call.baseTimeout
        IN  IF latency = -1
            THEN ret.timeout = 2 * base
            ELSE /\ 2000 * ret.timeout - base * Clamped(latency) <= 1000
                 /\ base * Clamped(latency) - 2000 * ret.timeout <= 1000
                 /\ ret.timeout >= base
                 /\ ret.timeout <= 3 * base

-----------------------------------------------------------------------------
(* Specification of the keep-alive timers of both managers *)

KeepAlivePools == {<<R1>>}
\* options.keepAliveInterval: shorter than one tick can last, and the default
KeepAliveIntervals == {1000, DefaultKeepAliveMs}
\* the metrics measured for a connection
SettledMetrics == {MeasureConnectionQuality(TRUE, <<200, 200, 200, 200, 200>>)}
\* the outcomes of the request of a ProxyManager tick: no response, and one
\* that the validateStatus of the request turns into an error
KeepAliveStatuses == {0, 404}
\* the relay the quantum manager is initialized with
QuantumRelays == {R2}

InitKeepAlive ==
    /\ InitPM
    /\ InitBot(4)
    /\ testCount = 1
    /\ keepAliveEnabled = TRUE
    /\ keepAliveMs \in KeepAliveIntervals

NextKeepAlive ==
    \/ \E pool \in KeepAlivePools : LoadProxies(pool)
    \/ GetWorkingProxyAny({500})
    \/ StartKeepAlive
    \/ StopKeepAlive
    \/ KeepAliveTick
    \/ \E q \in BagToSet(pmPings) : TcpConnected(q)
    \/ \E q \in BagToSet(pmPings) : TcpLost(q)
    \/ \E q \in BagToSet(pmPings) : \E status \in KeepAliveStatuses : HttpChecked(q, status)
    \/ \E cfg \in QuantumRelays : InitializeQuantumConnection(cfg)
    \/ \E init \in BagToSet(qInits) : \E lookup \in {Null, Address("203.0.113.7")} :
          DnsLookupSettled(init, lookup)
    \/ \E init \in BagToSet(qInits) : \E secured, quantumTest \in BOOLEAN :
          \E metrics \in SettledMetrics : \E pooled \in {ConnectionPoolSize} :
             QuantumConnectionSettled(init, secured, metrics, pooled, quantumTest)
    \/ QuantumCleanup
    \/ QuantumStartKeepAlive
    \/ QuantumStopKeepAlive
    \/ QuantumKeepAliveTick
    \/ \E q \in BagToSet(qPings) : QuantumTcpConnected(q)
    \/ \E q \in BagToSet(qPings) : QuantumTcpLost(q)
    \/ \E q \in BagToSet(qPings) : \E status \in {200, 0} : QuantumHttpChecked(q, status)

SpecKeepAlive == InitKeepAlive /\ [][NextKeepAlive]_vars

\* C8: whenever a keep-alive timer of a manager is running, the current
\* relay pointer of that manager (currentProxy, currentConnection) is not null.
C8_PointerSetWhileTimerRuns ==
    /\ pmTimers # {} => currentProxy # Null
    /\ qTimers # {} => currentConnection # Null

\* C9: no two keep-alive ticks of the same manager are in flight at the same
\* time, whatever the configured interval and the duration of the checks.
C9_TicksNeverOverlap ==
    /\ BagCardinality(pmPings) <= 1
    /\ BagCardinality(qPings) <= 1

\* C10: in both managers at most one keep-alive timer is live, after any
\* sequence of startKeepAlive and stopKeepAlive calls, and after stopKeepAlive
\* no timer of that manager is live and its stored handle is null.
C10_AtMostOneTimer ==
    /\ Cardinality(pmTimers) <= 1
    /\ Cardinality(qTimers) <= 1
    /\ pmTimers \subseteq {keepAliveInterval}
    /\ qTimers \subseteq {qKeepAliveInterval}
    /\ call.op = "stopKeepAlive" => (keepAliveInterval = Null /\ pmTimers = {})
    /\ call.op = "quantum.stopKeepAlive" => (qKeepAliveInterval = Null /\ qTimers = {})

\* C10 witness: the quantum manager was started while its timer was running,
\* and the timer that is live is the one now stored, not the earlier one,
\* while the timer of the ProxyManager, started and stopped before, is not live
C10_Witness ==
    /\ call.op = "quantum.startKeepAlive"
    /\ call.handle # Null
    /\ qKeepAliveInterval # call.handle
    /\ qTimers = {qKeepAliveInterval}
    /\ keepAliveInterval = Null
    /\ pmTimers = {}
    /\ lastPing # Null
    /\ lastPing.origin = "tick"

\* the last completed call is a startKeepAlive made while a timer was stored
RestartedProxyManager == call.op = "startKeepAlive" /\ call.handle # Null
RestartedQuantum == call.op = "quantum.startKeepAlive" /\ call.handle # Null

\* C11: startKeepAlive called while a keep-alive timer is running is a no-op
\* in either manager: the timer that was stored is still stored and still
\* the only live one; none is created, cleared or replaced.
C11_RestartIsNoOp ==
    /\ RestartedProxyManager =>
          (keepAliveInterval = call.handle /\ pmTimers = {call.handle})
    /\ RestartedQuantum =>
          (qKeepAliveInterval = call.handle /\ qTimers = {call.handle})

-----------------------------------------------------------------------------
(* Specification of the ticks of both managers: start, stop, ticks and the *)
(* outcomes of their checks                                                *)

NextTicks ==
    \/ \E pool \in KeepAlivePools : LoadProxies(pool)
    \/ GetWorkingProxyAny({500})
    \/ StartKeepAlive
    \/ StopKeepAlive
    \/ KeepAliveTick
    \/ \E q \in BagToSet(pmPings) : TcpConnected(q)
    \/ \E q \in BagToSet(pmPings) : TcpLost(q)
    \/ \E q \in BagToSet(pmPings) : \E status \in {0, 200} : HttpChecked(q, status)
    \/ \E cfg \in QuantumRelays : InitializeQuantumConnection(cfg)
    \/ \E init \in BagToSet(qInits) : DnsLookupSettled(init, Address("203.0.113.7"))
    \/ \E init \in BagToSet(qInits) : \E metrics \in SettledMetrics :
          QuantumConnectionSettled(init, TRUE, metrics, ConnectionPoolSize, TRUE)
    \/ QuantumCleanup
    \/ QuantumStartKeepAlive
    \/ QuantumStopKeepAlive
    \/ QuantumKeepAliveTick
    \/ \E q \in BagToSet(qPings) : QuantumTcpConnected(q)
    \/ \E q \in BagToSet(qPings) : QuantumTcpLost(q)
    \/ \E q \in BagToSet(qPings) : \E status \in {200, 0} : QuantumHttpChecked(q, status)

InitTicks ==
    /\ InitPM
    /\ InitBot(4)
    /\ testCount = 1
    /\ keepAliveEnabled = TRUE
    /\ keepAliveMs = DefaultKeepAliveMs

SpecTicks == InitTicks /\ [][NextTicks]_vars

\* the results a tick can produce
TickResults == {"tcp_lost", "http_failed", "healthy"}

\* the result left by the last settled tick says what its checks did
TickResultMatchesChecks ==
    (lastPing # Null /\ lastPing.origin \in {"tick", "quantum"}) =>
        /\ lastPing.result \in TickResults
        /\ lastPing.result = "tcp_lost" <=> (~lastPing.tcp /\ lastPing.http = "not_run")
        /\ lastPing.result = "http_failed" <=> (lastPing.tcp /\ lastPing.http = "failed")
        /\ lastPing.result = "healthy" <=> (lastPing.tcp /\ lastPing.http = "passed")

\* a step in which a tick of the manager that owns pings leaves flight
\* settles exactly one tick and leaves its result
TickSettlesOnce(pings, pingsAfter, origin) ==
    BagCardinality(pingsAfter) < BagCardinality(pings) =>
        /\ BagCardinality(pingsAfter) = BagCardinality(pings) - 1
        /\ lastPing' # Null
        /\ lastPing'.origin = origin
        /\ lastPing'.result \in TickResults

InPhase(pings, phase) ==
    LET S == {q \in BagToSet(pings) : q.phase = phase}
        RECURSIVE Sum(_)
        Sum(T) == IF T = {} THEN 0
                  ELSE LET q == CHOOSE x \in T : TRUE
                       IN  CopiesIn(q, pings) + Sum(T \ {q})
    IN  Sum(S)

\* a stopKeepAlive call completes in this step
StopReturns(op, handle, handleAfter) ==
    call'.op = op /\ (call' # call \/ handleAfter # handle)

\* C13: stopKeepAlive, whenever it is called (a tick in flight or not, a
\* timer running or not), leaves the ticks in flight alone, so that they
\* settle as they would have, and leaves no timer; and while no handle is
\* stored no new tick starts.
C13_StopIsSafe ==
    [][/\ StopReturns("stopKeepAlive", keepAliveInterval, keepAliveInterval') =>
             (pmPings' = pmPings /\ keepAliveInterval' = Null /\ pmTimers' = {})
       /\ StopReturns("quantum.stopKeepAlive", qKeepAliveInterval, qKeepAliveInterval') =>
             (qPings' = qPings /\ qKeepAliveInterval' = Null /\ qTimers' = {})
       /\ keepAliveInterval = Null =>
             InPhase(pmPings', "tcp") <= InPhase(pmPings, "tcp")
       /\ qKeepAliveInterval = Null =>
             InPhase(qPings', "tcp") <= InPhase(qPings, "tcp")]_vars

\* C13 witness: stopKeepAlive of the ProxyManager was called while a tick
\* was in flight; that tick has since settled as healthy, and no tick is in
\* flight
C13_Witness ==
    /\ call.op = "stopKeepAlive"
    /\ call.handle # Null
    /\ call.inFlight = 1
    /\ keepAliveInterval = Null
    /\ pmPings = EmptyBag
    /\ lastPing # Null
    /\ lastPing.origin = "tick"
    /\ lastPing.result = "healthy"

\* the times of the protocol-level requests that succeed, in milliseconds: of
\* a response at once, of a quick one and of one at the 5000 ms
\* timeout
SampleTimes == {0, 40, 5000}

\* the samples of a measurement: those of the 0 to 5 requests that succeeded
SampleRuns == UNION {[1..n -> SampleTimes] : n \in 0..MeasureSamples}

\* a call of measureConnectionQuality, as initializeQuantumConnection makes it
\* for the metrics of a connection
MeasureQuality(tcpSuccess, samples) ==
    /\ call' = [op |-> "measureConnectionQuality", before |-> currentConnection,
                pool |-> 0, tcp |-> tcpSuccess, samples |-> samples]
    /\ ret' = MeasureConnectionQuality(tcpSuccess, samples)
    /\ probes' = <<>>
    /\ UNCHANGED <<optVars, botVars, pmVars, kaVars, qVars>>

NextMeasure ==
    \E tcpSuccess \in BOOLEAN : \E samples \in SampleRuns :
        MeasureQuality(tcpSuccess, samples)

InitMeasure ==
    /\ InitPM
    /\ InitBot(4)
    /\ testCount = 1
    /\ keepAliveEnabled = TRUE
    /\ keepAliveMs = DefaultKeepAliveMs

SpecMeasure == InitMeasure /\ [][NextMeasure]_vars

\* C18: the stability measureConnectionQuality returns lies in 0..100 for
\* every outcome of the TCP handshake and every number of failed samples,
\* all five included
C18_StabilityInRange ==
    call.op = "measureConnectionQuality" => ret.stability \in 0..100

C18_Witness ==
    /\ call.op = "measureConnectionQuality"
    /\ call.tcp
    /\ call.samples = <<5000, 0, 5000>>
    /\ ret.stability = 20

\* the addresses a dnsLookup of the target domain resolves to
Addresses == {Address("203.0.113.7"), Address("203.0.113.8")}

\* the relays handed to initializeQuantumConnection
QuantumPair == {R1, R2}

\* the numbers of handles createConnectionPool validates, of 3 it creates
PoolYields == {0, 1, ConnectionPoolSize}

NextQuantum ==
    \/ \E cfg \in QuantumPair : InitializeQuantumConnection(cfg)
    \/ \E init \in BagToSet(qInits) :
         \E lookup \in {Address("203.0.113.7"), Null} :
           DnsLookupSettled(init, lookup)
    \/ \E init \in BagToSet(qInits) : \E secured \in AuditOutcomes :
         \E metrics \in SettledMetrics : \E pooled \in PoolYields :
           \E quantumTest \in BOOLEAN :
             QuantumConnectionSettled(init, secured, metrics, pooled, quantumTest)
    \/ QuantumCleanup
    \/ GetOptimizedConnection

InitQuantum ==
    /\ InitPM
    /\ InitBot(4)
    /\ testCount = 1
    /\ keepAliveEnabled = TRUE
    /\ keepAliveMs = DefaultKeepAliveMs

SpecQuantum == InitQuantum /\ [][NextQuantum]_vars

\* C14: initializeQuantumConnection returns false when the pre-warmed pool,
\* built after an assessment that did not throw, holds no validated handle
C14_EmptyPoolFailsInit ==
    (call.op = "initializeQuantumConnection" /\ call.secured /\ call.pool = 0)
        => ret.ok = FALSE

\* a call of initializeQuantumConnection returns in this step
InitReturns ==
    /\ BagCardinality(qInits') < BagCardinality(qInits)
    /\ call'.op = "initializeQuantumConnection"

\* C15: a call of initializeQuantumConnection that returns false leaves the
\* set of connections and the current connection as they were before it
C15_FailedInitChangesNothing ==
    [][(InitReturns /\ ret'.ok = FALSE)
          => (connections' = connections
              /\ currentConnection' = currentConnection)]_vars

C15_Witness ==
    /\ call.op = "initializeQuantumConnection"
    /\ call.secured
    /\ call.quantumTest = FALSE
    /\ ret.ok = FALSE
    /\ call.before # Null
    /\ currentConnection = call.before
    /\ call.before.proxy # R1
    /\ DOMAIN connections = {ConnectionKey(R2)}

\* C16: an error thrown by establishSecureConnection is a warning only: a
\* call whose acceptance test passes returns true and registers its
\* connection as the current one
C16_AuditErrorIsWarning ==
    (call.op = "initializeQuantumConnection" /\ ~call.secured /\ call.quantumTest)
        => (ret.ok = TRUE /\ currentConnection # Null
            /\ currentConnection # call.before)

\* the proxy files read at construction: an empty one and one of one relay
EmptyPoolFiles == {<<>>, <<R1>>}

NextEmptyPool ==
    \/ \E pool \in EmptyPoolFiles : LoadProxies(pool)
    \/ \E r \in {R1, R2} : SetCurrentProxyAny(r, {-1, 500})
    \/ GetWorkingProxyAny({-1, 500})

SpecEmptyPool == InitSel /\ [][NextEmptyPool]_vars

\* C20: with no proxy loaded getWorkingProxy returns null, issues no probe and
\* leaves the current relay as it was
C20_EmptyPoolReturnsNull ==
    (call.op = "getWorkingProxy" /\ call.pool = 0)
        => (ret = Null /\ probes = <<>> /\ currentProxy = call.before)

C20_Witness ==
    /\ call.op = "getWorkingProxy"
    /\ call.pool = 0
    /\ call.before # Null
    /\ currentProxy = call.before
    /\ ret = Null

NextDns ==
    \/ \E cfg \in QuantumRelays : InitializeQuantumConnection(cfg)
    \/ \E init \in BagToSet(qInits) : \E lookup \in Addresses \cup {Null} :
           DnsLookupSettled(init, lookup)
    \/ \E init \in BagToSet(qInits) : \E metrics \in SettledMetrics :
         \E quantumTest \in BOOLEAN :
           QuantumConnectionSettled(init, TRUE, metrics, ConnectionPoolSize,
                                    quantumTest)
    \/ QuantumCleanup
    \/ AdvanceClock(ClockStep)

SpecDns == InitQuantum /\ [][NextDns]_vars

\* the entry the observed quantumDNSResolve read had not expired
ReadFreshEntry == call.cached # Null /\ call.cached.expires > call.at

\* C17: quantumDNSResolve returns the cached ip, without a lookup and with
\* the cache left alone, while the entry has not expired; else it makes a
\* lookup, and a lookup that resolves stores the new ip with the expiry
\* now + TTL
C17_DnsCacheHonoursExpiry ==
    call.op = "quantumDNSResolve" =>
        /\ ReadFreshEntry =>
              /\ ~call.lookedUp
              /\ ret = call.cached.ip
              /\ TargetDomain \in DOMAIN dnsCache
              /\ dnsCache[TargetDomain] = call.cached
        /\ ~ReadFreshEntry => call.lookedUp
        /\ call.resolved =>
              /\ TargetDomain \in DOMAIN dnsCache
              /\ dnsCache[TargetDomain] = [ip |-> ret,
                                           expires |-> call.at + DnsCacheTTL]

C17_Witness ==
    /\ call.op = "quantumDNSResolve"
    /\ call.resolved
    /\ call.cached # Null
    /\ call.cached.expires = call.at
    /\ call.cached.ip = Address("203.0.113.7")
    /\ ret = Address("203.0.113.8")
    /\ dnsCache[TargetDomain] = [ip |-> ret, expires |-> call.at + DnsCacheTTL]

\* the handles of a pool, none of them twice
DistinctHandles(pool) == Cardinality(Range(pool)) = Len(pool)

\* C19: getOptimizedConnection returns null without a current connection;
\* with a pool of n >= 1 handles it returns the handle at the front and moves
\* it to the back, so that the pool keeps its size and its members and n
\* calls in a row return each handle once
C19_PoolRotates ==
    /\ [](currentConnection # Null
             => DistinctHandles(currentConnection.connectionPool))
    /\ [][(call'.op = "getOptimizedConnection" /\ call'.before = currentConnection)
            => IF currentConnection = Null
               THEN ret' = Null /\ currentConnection' = Null
               ELSE LET pool == currentConnection.connectionPool
                    IN  Len(pool) >= 1 =>
                          /\ ret' = [handle |-> Head(pool)]
                          /\ currentConnection'.connectionPool
                                = Append(Tail(pool), Head(pool))
                          /\ Range(currentConnection'.connectionPool) = Range(pool)]_vars

C19_Witness ==
    /\ call.op = "getOptimizedConnection"
    /\ call.pool = ConnectionPoolSize
    /\ ret = [handle |-> ConnectionPoolSize]
    /\ currentConnection # Null
    /\ currentConnection.connectionPool = <<1, 2, 3>>

\* C30: after a measurement whose TCP sample succeeded and in which f of the
\* 5 protocol-level samples failed, packetLoss is 100 * f / 5, also for f = 5
C30_PacketLossIsFailedShare ==
    (call.op = "measureConnectionQuality" /\ call.tcp)
        => ret.packetLoss * MeasureSamples
             = 100 * (MeasureSamples - Len(call.samples))

\* C29: when the lookup fails and quantumDNSResolve read a cache entry, also
\* an expired one, it returns the ip of that entry; when it read none the
\* error reaches initializeQuantumConnection, which returns false
C29_StaleFallbackOrFailedInit ==
    /\ (call.op = "quantumDNSResolve" /\ call.lookedUp /\ ~call.resolved)
          => (call.cached # Null /\ ret = call.cached.ip)
    /\ (call.op = "initializeQuantumConnection" /\ call.dnsFailed)
          => (call.cached = Null /\ ret = [ok |-> FALSE]
              /\ currentConnection = call.before)

C29_Witness ==
    /\ call.op = "quantumDNSResolve"
    /\ call.lookedUp
    /\ ~call.resolved
    /\ call.cached # Null
    /\ call.cached.expires <= call.at
    /\ ret = call.cached.ip
    /\ dnsCache = EmptyMap

\* C22: when the TCP connect of the validation of a newly set current relay
\* fails, switchToNextProxy runs once (at most 3 probes) and neither the HTTP
\* check nor a warm-up ping is run on that relay
C22_TcpFailureSwitchesOnce ==
    (call.op = "setCurrentProxy" /\ ~call.tcp)
        => /\ call.switches = 1
           /\ call.httpChecks = 0
           /\ call.warmUps = 0
           /\ Len(probes) <= SwitchProbeLimit
           /\ \A i \in 1..Len(probes) : KeyOf(probes[i].relay) # KeyOf(call.proxy)

C22_Witness ==
    /\ call.op = "setCurrentProxy"
    /\ ~call.tcp
    /\ Len(probes) = 1
    /\ Passes(probes[1].rt)
    /\ currentProxy = probes[1].relay
    /\ currentProxy # call.proxy
    /\ lastPing # Null
    /\ lastPing.result = "tcp_rejected"

\* C27: every step that makes another relay the current one is a
\* setCurrentProxy, whose validate-and-warm-up sequence runs on that relay,
\* starting with the TCP connect
C27_NewCurrentIsValidated ==
    [][currentProxy' # currentProxy
         => (call'.op = "setCurrentProxy" /\ call'.proxy = currentProxy')]_vars

\* the candidates of the switch this step makes, as the call ranks them
RankedCandidates == SortCandidates(proxyHealthScores, AvailableProxies(currentProxy))

\* C23: switchToNextProxy probes at most 3 candidates, one after another in
\* rank order, and stops at the first whose probe is positive and below
\* 8000 ms: that candidate becomes the current relay and is returned, and no
\* candidate ranked after it is probed
C23_ProbesStopAtFirstPass ==
    /\ [](SwitchReturned =>
            /\ Len(probes) <= 3
            /\ \A i \in 1..(Len(probes) - 1) : ~ProbePassed(probes[i])
            /\ ret # Null =>
                  /\ probes # <<>>
                  /\ ProbePassed(probes[Len(probes)])
                  /\ ret = probes[Len(probes)].relay
                  /\ currentProxy = ret)
    /\ [][call'.op = "switchToNextProxy" =>
            \A i \in 1..Len(probes') :
                /\ i <= Len(RankedCandidates)
                /\ probes'[i].relay = RankedCandidates[i]]_vars

C23_Witness ==
    /\ SwitchReturned
    /\ Len(proxies) = 4
    /\ call.before # Null
    /\ Len(probes) = 2
    /\ ~ProbePassed(probes[1])
    /\ ProbePassed(probes[2])
    /\ ret = probes[2].relay
    /\ currentProxy = ret

\* the keys of the relays a call probed
ProbedKeys(ps) == {KeyOf(ps[i].relay) : i \in 1..Len(ps)}

\* the score s after n penalties of 5, each with a floor of 0
RECURSIVE LoweredTimes(_, _)
LoweredTimes(s, n) == IF n = 0 THEN s ELSE LoweredTimes(Max(0, s - 5), n - 1)

\* the probes among ps that were rejected and whose candidate has the key k:
\* every probe but the last when a candidate was accepted
RejectedProbes(ps, accepted, k) ==
    {i \in 1..Len(ps) : KeyOf(ps[i].relay) = k /\ (accepted = Null \/ i < Len(ps))}

\* C24: a switchToNextProxy call raises the score of the candidate it accepts
\* by exactly 10, lowers the score of each candidate it probed and rejected
\* before by 5 with a floor of 0, and leaves every other score as it was
C24_SwitchScoreDeltas ==
    [][call'.op = "switchToNextProxy" =>
         \A k \in DOMAIN proxyHealthScores \cup DOMAIN proxyHealthScores'
                    \cup ProbedKeys(probes') :
            ScoreOf(proxyHealthScores', k) =
               LoweredTimes(ScoreOf(proxyHealthScores, k),
                            Cardinality(RejectedProbes(probes', ret', k)))
               + (IF ret' # Null /\ k = KeyOf(ret') THEN 10 ELSE 0)]_vars

\* C24 witness: a switch accepted a candidate after it rejected another,
\* while the relay that was current had a score above 0
C24_Witness ==
    /\ call.op = "switchToNextProxy"
    /\ ret # Null
    /\ Len(probes) >= 2
    /\ KeyOf(probes[1].relay) # KeyOf(ret)
    /\ call.before # Null
    /\ ScoreOf(proxyHealthScores, KeyOf(call.before)) > 0

\* the pool of the ranking: three relays of distinct keys
RankPools == {<<R1, R2, R3>>}

\* latencies pingProxy returns for the candidates of a switch: the failure
\* sentinel, one that passes and two at and above the ceiling
RankOutcomes == {-1, 500, 8000, 9000}

NextRank ==
    \/ \E pool \in RankPools : LoadProxies(pool)
    \/ GetWorkingProxyAny({500})
    \/ SwitchToNextProxyAny(RankOutcomes)

SpecRank == InitSwitch /\ [][NextRank]_vars

\* the latency the last call measured for the relay p: positive, or the
\* large sentinel when it measured none
LastMeasured(p) ==
    IF \E i \in 1..Len(probes) : probes[i].relay = p /\ probes[i].rt > 0
    THEN (CHOOSE q \in Range(probes) : q.relay = p /\ q.rt > 0).rt
    ELSE 99999

\* a ranks strictly before b: a higher score, or the same score and a lower
\* last-measured latency
RanksBefore(a, b) ==
    LET scoreA == ScoreOf(proxyHealthScores, KeyOf(a))
        scoreB == ScoreOf(proxyHealthScores, KeyOf(b))
    IN  \/ scoreA > scoreB
        \/ scoreA = scoreB /\ LastMeasured(a) < LastMeasured(b)

\* C25: switchToNextProxy ranks its candidates by health score descending and,
\* among equal scores, by last-measured latency ascending (unknown last), and
\* probes the first ones of that ranking: no candidate that ranks strictly
\* before a probed one is left for later.  The latencies are the ones the
\* call before measured
C25_RankedByScoreThenLatency ==
    [][(call.op = "switchToNextProxy" /\ call'.op = "switchToNextProxy") =>
         \A i \in 1..Len(probes') :
            \A c \in Range(AvailableProxies(currentProxy)) :
               (\A j \in 1..i : probes'[j].relay # c)
                   => ~RanksBefore(c, probes'[i].relay)]_vars

\* one of the defined deltas took the score old to new: + 10, - 5, - 2 or - 3,
\* the penalties with a floor of 0
DefinedDelta(old, new) ==
    \/ new = old + 10
    \/ new = Max(0, old - 5)
    \/ new = Max(0, old - 2)
    \/ new = Max(0, old - 3)

\* the step is a setCurrentProxy with its validation, which makes several
\* checks in one step
ValidationStep ==
    /\ call'.op = "setCurrentProxy"
    /\ lastPing' # Null
    /\ lastPing'.origin = "validate"

\* C26: every change of a stored health score by one switch or one HTTP-level
\* check is one of the defined deltas, + 10, - 5, - 2 or - 3 floored at 0,
\* and no score changes by another amount or is reset
C26_OnlyDefinedDeltas ==
    [][~ValidationStep =>
         \A k \in DOMAIN proxyHealthScores \cup DOMAIN proxyHealthScores' :
            \/ ScoreOf(proxyHealthScores', k) = ScoreOf(proxyHealthScores, k)
            \/ DefinedDelta(ScoreOf(proxyHealthScores, k),
                            ScoreOf(proxyHealthScores', k))]_vars

-----------------------------------------------------------------------------
(* ProxyManager: parsing the lines of a proxy list.  A line is the sequence
   of its characters; the descriptors made here carry their host and their
   protocol as such sequences. *)

\* the digits of radix 16 in the order of their values, in either case; the
\* first ten are the decimal digits
HexDigits ==
    <<{"0"}, {"1"}, {"2"}, {"3"}, {"4"}, {"5"}, {"6"}, {"7"}, {"8"}, {"9"},
      {"a", "A"}, {"b", "B"}, {"c", "C"}, {"d", "D"}, {"e", "E"}, {"f", "F"}>>

\* is c a digit in the radix
IsDigit(c, radix) == \E i \in 1..radix : c \in HexDigits[i]

DigitValue(c) == (CHOOSE i \in 1..16 : c \in HexDigits[i]) - 1

\* the longest prefix of s made of digits of the radix
RECURSIVE LeadingDigits(_, _)
LeadingDigits(s, radix) ==
    IF s = <<>> \/ ~IsDigit(Head(s), radix) THEN <<>>
    ELSE <<Head(s)>> \o LeadingDigits(Tail(s), radix)

\* the number a sequence of digits writes
RECURSIVE DigitsValue(_, _)
DigitsValue(ds, radix) ==
    IF ds = <<>> THEN 0
    ELSE DigitsValue(SubSeq(ds, 1, Len(ds) - 1), radix) * radix + DigitValue(ds[Len(ds)])

\* the decimal digits of a number
RECURSIVE ToDigits(_)
ToDigits(n) ==
    LET digit(d) == CHOOSE c \in HexDigits[d + 1] : TRUE
    IN  IF n < 10 THEN <<digit(n)>>
        ELSE ToDigits(n \div 10) \o <<digit(n % 10)>>

RECURSIVE StripLeadingSpaces(_)
StripLeadingSpaces(s) ==
    IF s # <<>> /\ Head(s) = " " THEN StripLeadingSpaces(Tail(s)) ELSE s

\* Number.parseInt(s) with no radix: leading white space is skipped, a sign
\* is read, a 0x prefix selects radix 16, then the longest prefix of digits
\* is the number; what follows these digits is ignored, and no digit at
\* all gives NaN
ParseInt(s) ==
    LET t == StripLeadingSpaces(s)
        negative == t # <<>> /\ Head(t) = "-"
        u == IF t # <<>> /\ Head(t) \in {"+", "-"} THEN Tail(t) ELSE t
        hex == Len(u) >= 2 /\ u[1] = "0" /\ u[2] \in {"x", "X"}
        radix == IF hex THEN 16 ELSE 10
        body == IF hex THEN SubSeq(u, 3, Len(u)) ELSE u
        ds == LeadingDigits(body, radix)
    IN  IF ds = <<>> THEN [nan |-> TRUE]
        ELSE [nan |-> FALSE,
              value |-> (IF negative THEN -1 ELSE 1) * DigitsValue(ds, radix)]

\* s.includes(sub)
Includes(s, sub) ==
    \E i \in 1..(Len(s) - Len(sub) + 1) : SubSeq(s, i, i + Len(sub) - 1) = sub

\* the index of the first c in s, Len(s) + 1 when there is none
IndexOf(s, c) ==
    IF \E i \in 1..Len(s) : s[i] = c
    THEN CHOOSE i \in 1..Len(s) : s[i] = c /\ \A j \in 1..(i - 1) : s[j] # c
    ELSE Len(s) + 1

\* s.split(sep) for a separator of one character
RECURSIVE Split(_, _)
Split(s, sep) ==
    LET i == IndexOf(s, sep)
    IN  IF i > Len(s) THEN <<s>>
        ELSE <<SubSeq(s, 1, i - 1)>> \o Split(SubSeq(s, i + 1, Len(s)), sep)

\* the schemes, as characters
Scheme ==
    [http   |-> <<"h", "t", "t", "p">>,
     https  |-> <<"h", "t", "t", "p", "s">>,
     ws     |-> <<"w", "s">>,
     wss    |-> <<"w", "s", "s">>,
     ftp    |-> <<"f", "t", "p">>,
     socks5 |-> <<"s", "o", "c", "k", "s", "5">>]

\* the default port of a special scheme (a scheme whose URLs must have a
\* host), -1 for another scheme
DefaultPort(scheme) ==
    CASE scheme \in {Scheme.http, Scheme.ws} -> 80
      [] scheme \in {Scheme.https, Scheme.wss} -> 443
      [] scheme = Scheme.ftp -> 21
      [] OTHER -> -1

\* what a call that threw leaves instead of a value
Thrown == [thrown |-> TRUE]

\* new URL(s) for a line "scheme://host", "scheme://host:port", with or
\* without a path, whose scheme is in lower case and whose host is a name
\* in lower case or a dotted quad in canonical form (such a host is kept as
\* written).  It throws when the scheme is not a scheme, when the host is
\* missing (before a port, or in a special scheme), when the port is not
\* made of digits only and when it exceeds 65535; the port that is the
\* default of the scheme becomes "", every other loses its leading zeros.
ParseURL(s) ==
    LET LowerLetters ==
            {"a", "b", "c", "d", "e", "f", "g", "h", "i", "j", "k", "l", "m",
             "n", "o", "p", "q", "r", "s", "t", "u", "v", "w", "x", "y", "z"}
        i == IndexOf(s, ":")
        scheme == SubSeq(s, 1, i - 1)
        rest == SubSeq(s, i + 1, Len(s))
        schemeOk == /\ scheme # <<>>
                    /\ Head(scheme) \in LowerLetters
                    /\ \A k \in 1..Len(scheme) :
                          \/ scheme[k] \in LowerLetters
                          \/ IsDigit(scheme[k], 10)
                          \/ scheme[k] \in {"+", "-", "."}
        slashes == Len(rest) >= 2 /\ rest[1] = "/" /\ rest[2] = "/"
        afterSlashes == SubSeq(rest, 3, Len(rest))
        authority == SubSeq(afterSlashes, 1, IndexOf(afterSlashes, "/") - 1)
        c == IndexOf(authority, ":")
        host == SubSeq(authority, 1, c - 1)
        portText == SubSeq(authority, c + 1, Len(authority))
        portOk == LeadingDigits(portText, 10) = portText
        portValue == DigitsValue(portText, 10)
    IN  IF ~schemeOk THEN Thrown
        ELSE IF ~slashes THEN [protocol |-> scheme, hostname |-> <<>>, port |-> <<>>]
        ELSE IF host = <<>> /\ (c <= Len(authority) \/ DefaultPort(scheme) # -1) THEN Thrown
        ELSE IF ~portOk THEN Thrown
        ELSE IF portText # <<>> /\ portValue > 65535 THEN Thrown
        ELSE [protocol |-> scheme, hostname |-> host,
              port |-> IF portText = <<>> \/ portValue = DefaultPort(scheme)
                       THEN <<>> ELSE ToDigits(portValue)]

\* parseProxy(proxyString, protocol): a descriptor, null, or the exception
\* of new URL
ParseProxyResult(proxyString, protocol) ==
    LET viaUrl == Includes(proxyString, <<":", "/", "/">>)
        url == ParseURL(proxyString)
        split == Split(proxyString, ":")
        parts == IF viaUrl THEN <<url.hostname, url.port>> ELSE split
        host == parts[1]
        port == ParseInt(parts[2])
    IN  IF viaUrl /\ url = Thrown THEN Thrown
        ELSE IF ~viaUrl /\ Len(split) # 2 THEN Null
        ELSE IF host = <<>> \/ port.nan \/ port.value < 1 \/ port.value > 65535 THEN Null
        ELSE Relay(host, port.value, IF viaUrl THEN url.protocol ELSE protocol)

\* one call of parseProxy
ParseProxy(proxyString, protocol) ==
    /\ call' = [op |-> "parseProxy", before |-> currentProxy, pool |-> Len(proxies),
                line |-> proxyString, protocol |-> protocol]
    /\ ret' = ParseProxyResult(proxyString, protocol)
    /\ probes' = <<>>
    /\ UNCHANGED <<optVars, botVars, pmVars, kaVars, qVars>>

\* the loop of loadProxiesFromFile and loadProxiesFromUrl over the lines left
\* from index i on: a descriptor is pushed for every line parseProxy gives
\* one for, and the exception of parseProxy leaves the loop for the catch
\* block, which keeps what was pushed
RECURSIVE ParseLinesFrom(_, _, _)
ParseLinesFrom(lines, protocol, i) ==
    IF i > Len(lines) THEN <<>>
    ELSE LET proxy == ParseProxyResult(lines[i], protocol)
         IN  IF proxy = Thrown THEN <<>>
             ELSE (IF proxy = Null THEN <<>> ELSE <<proxy>>)
                     \o ParseLinesFrom(lines, protocol, i + 1)

\* loadProxiesFromFile(protocol), loadProxiesFromUrl(url, protocol): the
\* lines that are not empty are parsed (content.split("\n").filter((line) =>
\* line.trim()); the lines here carry no white space around them)
LoadProxiesFromFile(lines, protocol) ==
    ParseLinesFrom(SelectSeq(lines, LAMBDA line : line # <<>>), protocol, 1)

\* loadProxies() with one source configured, whose content is lines
LoadProxiesOfLines(lines, protocol) ==
    /\ ~loaded
    /\ loaded' = TRUE
    /\ proxies' = LoadProxiesFromFile(lines, protocol)
    /\ call' = [op |-> "loadProxies", before |-> currentProxy, pool |-> Len(proxies),
                lines |-> lines, protocol |-> protocol]
    /\ ret' = Null
    /\ probes' = <<>>
    /\ UNCHANGED <<bestProxy, currentProxy, proxyHealthScores>>
    /\ UNCHANGED <<optVars, botVars, qVars, kaVars>>

\* the lines parsed: host:port lines, lines with no colon or with two,
\* scheme://host:port and scheme://host lines.  The hosts are none, a name
\* and an address; the ports are none, the ends of the range and what lies
\* just outside, the default ports, and text that is not a number; the
\* schemes are none, two special ones and another.
ParseLines ==
    LET hosts == {<<>>, <<"h">>, <<"1", "0", ".", "0", ".", "0", ".", "1">>}
        ports == {<<>>, <<"0">>, <<"1">>, <<"8", "0">>, <<"4", "4", "3">>,
                  <<"8", "0", "8", "0">>, <<"0", "8", "0", "8", "0">>,
                  <<"6", "5", "5", "3", "5">>, <<"6", "5", "5", "3", "6">>,
                  <<"a">>, <<"8", "0", "a">>, <<"-", "1">>, <<"+", "8", "0">>,
                  <<"0", "x", "5", "0">>, <<" ", "8", "0">>}
        schemes == {<<>>, Scheme.http, Scheme.https, Scheme.socks5}
    IN  {h \o <<":">> \o p : h \in hosts, p \in ports}
        \cup {<<"h">>, <<"h", "8", "0">>, <<"8", "0", "8", "0">>,
              <<"h", ":", "8", "0", ":", "8", "0">>, <<"h", ":", ":", "8", "0">>}
        \cup {s \o <<":", "/", "/">> \o h \o t :
                 s \in schemes, h \in hosts,
                 t \in {<<":">> \o p : p \in ports} \cup {<<>>, <<"/">>}}

\* the protocol argument of the loaders
ParseProtocols == {Scheme.http, Scheme.socks5}

NextParse ==
    \E line \in ParseLines : \E protocol \in ParseProtocols : ParseProxy(line, protocol)

SpecParse == InitSwitch /\ [][NextParse]_vars

\* the lines of the lists loaded
LoadLines ==
    {<<"1", "0", ".", "0", ".", "0", ".", "1", ":", "8", "0", "8", "0">>,
     <<"h", ":", "1", "0", "8", "0">>,
     Scheme.socks5 \o <<":", "/", "/", "h", ":", "1", "0", "8", "0">>,
     <<"h">>,
     <<"h", ":", "0">>,
     <<>>,
     Scheme.http \o <<":", "/", "/", ":", "8", "0", "8", "0">>,
     Scheme.socks5 \o <<":", "/", "/", "h", ":", "a">>}

\* the lists loaded: up to MaxFileLines lines
MaxFileLines == 3
LoadFiles == UNION {[1..n -> LoadLines] : n \in 0..MaxFileLines}

NextLoad ==
    \E lines \in LoadFiles : \E protocol \in ParseProtocols :
        LoadProxiesOfLines(lines, protocol)

SpecLoad == InitSwitch /\ [][NextLoad]_vars

-----------------------------------------------------------------------------
(* Claims about parsing (checked under SpecParse and SpecLoad) *)

\* the line is host:port: one colon, a host before it, and after it a port
\* of decimal digits only
HostColonPort(line) ==
    /\ Len(SelectSeq(line, LAMBDA ch : ch = ":")) = 1
    /\ IndexOf(line, ":") > 1
    /\ IndexOf(line, ":") < Len(line)
    /\ \A k \in (IndexOf(line, ":") + 1)..Len(line) : IsDigit(line[k], 10)
HostOf(line) == SubSeq(line, 1, IndexOf(line, ":") - 1)
PortOf(line) == DigitsValue(SubSeq(line, IndexOf(line, ":") + 1, Len(line)), 10)
\* a well-formed host:port line with its port in 1..65535
WellFormed(line) == HostColonPort(line) /\ PortOf(line) \in 1..65535
\* the line names no scheme
Plain(line) == ~Includes(line, <<":", "/", "/">>)

\* C21: parseProxy gives for a well-formed host:port line a descriptor with
\* that host and that port, and gives null, throwing nothing, for a line
\* with no host, with no colon, with a port that is not a number or with a
\* port outside 1..65535
C21_ParseProxyTotalAndExact ==
    (call.op = "parseProxy" /\ Plain(call.line)) =>
        IF WellFormed(call.line)
        THEN ret = Relay(HostOf(call.line), PortOf(call.line), call.protocol)
        ELSE ret = Null

\* the descriptors of the well-formed lines among the lines from index i on,
\* host:port lines and scheme://host:port lines
RECURSIVE WellFormedFrom(_, _, _)
WellFormedFrom(lines, protocol, i) ==
    IF i > Len(lines) THEN <<>>
    ELSE LET line == lines[i]
             bare == SubSeq(line, IndexOf(line, ":") + 3, Len(line))
         IN  (IF Plain(line) /\ WellFormed(line)
              THEN <<Relay(HostOf(line), PortOf(line), protocol)>>
              ELSE IF ~Plain(line) /\ WellFormed(bare)
              THEN <<Relay(HostOf(bare), PortOf(bare), SubSeq(line, 1, IndexOf(line, ":") - 1))>>
              ELSE <<>>)
             \o WellFormedFrom(lines, protocol, i + 1)

\* C28: the pool loaded from a list holds one descriptor for every
\* well-formed line, in order, wherever the malformed lines stand: a
\* malformed line is skipped alone
C28_MalformedLineSkippedAlone ==
    call.op = "loadProxies" =>
        proxies = WellFormedFrom(call.lines, call.protocol, 1)

-----------------------------------------------------------------------------
(* Specification of the choice of the best connection: connections of three
   stabilities are initialized, used, compared and cleaned up *)

\* the metrics measured for the connections: five fast samples, no sample
\* (stability 10) and no TCP handshake (stability 0)
BestMetrics ==
    {MeasureConnectionQuality(TRUE, <<200, 200, 200, 200, 200>>),
     MeasureConnectionQuality(TRUE, <<>>),
     MeasureConnectionQuality(FALSE, <<>>)}

NextBest ==
    \/ \E cfg \in QuantumPair : InitializeQuantumConnection(cfg)
    \/ \E init \in BagToSet(qInits) :
         \E lookup \in {Address("203.0.113.7"), Null} :
           DnsLookupSettled(init, lookup)
    \/ \E init \in BagToSet(qInits) : \E metrics \in BestMetrics :
         \E pooled \in {1, ConnectionPoolSize} : \E quantumTest \in BOOLEAN :
           QuantumConnectionSettled(init, TRUE, metrics, pooled, quantumTest)
    \/ SwitchToBestProxy
    \/ GetOptimizedConnection
    \/ QuantumCleanup

SpecBest == InitQuantum /\ [][NextBest]_vars

\* C31: after switchToBestProxy with at least one bound connection the
\* current connection has the highest stability of all bound connections and
\* the call returned true exactly when the current connection changed; with
\* no bound connection it returned false and changed nothing
C31_SwitchToBestProxyPicksMaximum ==
    call.op = "switchToBestProxy" =>
        IF DOMAIN connections = {}
        THEN ret.ok = FALSE /\ currentConnection = call.before
        ELSE /\ currentConnection # Null
             /\ \A k \in DOMAIN connections :
                   connections[k].metrics.stability
                      <= currentConnection.metrics.stability
             /\ ret.ok = (currentConnection # call.before)

\* C31 witness: with two connections bound the call moved the current
\* connection to one of a higher stability
C31_Witness ==
    /\ call.op = "switchToBestProxy"
    /\ ret.ok
    /\ Cardinality(DOMAIN connections) = 2
    /\ call.before # Null
    /\ call.before.metrics.stability < currentConnection.metrics.stability

\* C32: after cleanup the DNS cache is empty, no connection is bound and
\* there is no current connection, and a getOptimizedConnection call that
\* follows returns null
C32_CleanupClearsEverything ==
    /\ [](call.op = "quantum.cleanup" =>
            (dnsCache = EmptyMap /\ connections = EmptyMap
             /\ currentConnection = Null))
    /\ [][(call.op = "quantum.cleanup" /\ call'.op = "getOptimizedConnection")
            => ret' = Null]_vars

\* C32 witness: cleanup returned on a manager that had a current connection
\* and a call was initializing another
C32_Witness ==
    /\ call.op = "quantum.cleanup"
    /\ call.before # Null
    /\ qInits # EmptyBag

\* C38: the current connection is null or one of the connections bound in
\* the connections map
C38_CurrentConnectionIsBound ==
    \/ currentConnection = Null
    \/ \E k \in DOMAIN connections : connections[k] = currentConnection

\* C38 witness: with two connections bound the current one was used, and
\* is not the one bound last
C38_Witness ==
    /\ call.op = "getOptimizedConnection"
    /\ ret # Null
    /\ Cardinality(DOMAIN connections) = 2
    /\ currentConnection # connections[connectionOrder[2]]

-----------------------------------------------------------------------------
(* CrossfireReferralBot: the quantum manager between launch and close.  The
   model holds the one quantum manager the bot creates at launch. *)

\* the callback launchFreshBrowser chains to the initializeQuantumConnection
\* call it does not await: .then((success) => { if (success)
\* startKeepAlive() ... }), run when the call has resolved with true
LaunchInitThen ==
    /\ call.op = "initializeQuantumConnection"
    /\ ret.ok
    /\ QuantumStartKeepAlive

\* close(): quantumProxyManager.stopKeepAlive() and then cleanup(); calls of
\* initializeQuantumConnection in flight are left to settle
BotClose ==
    /\ botAt # "closed"
    /\ botAt' = "closed"
    /\ call' = [op |-> "close", before |-> currentConnection, pool |-> 0,
                handle |-> qKeepAliveInterval, inits |-> BagCardinality(qInits)]
    /\ ret' = Null
    /\ probes' = <<>>
    /\ qKeepAliveInterval' = Null
    /\ qTimers' = IF qKeepAliveInterval # Null THEN qTimers \ {qKeepAliveInterval}
                  ELSE qTimers
    /\ dnsCache' = Cleared(dnsCache)
    /\ connections' = Cleared(connections)
    /\ connectionOrder' = <<>>
    /\ currentConnection' = NoConnection
    /\ UNCHANGED <<now, nextConnection, qInits, qPings, useProxy>>
    /\ UNCHANGED <<optVars, pmVars, kaVars>>

\* launchFreshBrowser starts initializeQuantumConnection for the current
\* relay, before close(); the call settles whenever its awaits do
NextClose ==
    \/ /\ botAt # "closed"
       /\ \E cfg \in QuantumPair : InitializeQuantumConnection(cfg)
    \/ \E init \in BagToSet(qInits) :
         \E lookup \in {Address("203.0.113.7"), Null} :
           DnsLookupSettled(init, lookup)
    \/ \E init \in BagToSet(qInits) : \E secured \in AuditOutcomes :
         \E metrics \in SettledMetrics : \E pooled \in PoolYields :
           \E quantumTest \in BOOLEAN :
             QuantumConnectionSettled(init, secured, metrics, pooled, quantumTest)
    \/ LaunchInitThen
    \/ BotClose

SpecClose == InitQuantum /\ [][NextClose]_vars

\* C35: once close() has completed the quantum manager has no live
\* keep-alive timer and no current connection, also when a call of
\* initializeQuantumConnection started at launch settles after close()
C35_ClosedManagerIsQuiet ==
    botAt = "closed" => (qTimers = {} /\ currentConnection = Null)

-----------------------------------------------------------------------------
(* The temporary override of config.useProxy in stable mode *)

\* the keep-alive timer after this.proxyManager?.stopKeepAlive?.(), which
\* the two operations call when they find stable mode
StoppedForOverride(stable) ==
    [handle |-> IF stable THEN Null ELSE keepAliveInterval,
     timers |-> IF stable /\ keepAliveInterval # Null
                THEN pmTimers \ {keepAliveInterval} ELSE pmTimers]

\* clickContinueButton(): in stable mode (useProxy = 5) the keep-alive is
\* stopped and useProxy set to 0; it is set back to 5 only before the return
\* true that follows a click of the Continue button.  outcome is "clicked",
\* "not_clicked" (return false) or "throws" (the screenshot before the
\* return false rejects)
ClickContinueButton(outcome) ==
    LET wasUsingStableMode == useProxy = 5
        stopped == StoppedForOverride(wasUsingStableMode)
    IN  /\ call' = [op |-> "clickContinueButton", before |-> currentProxy,
                    pool |-> Len(proxies), useProxy |-> useProxy,
                    outcome |-> outcome]
        /\ ret' = IF outcome = "throws" THEN Thrown ELSE [ok |-> outcome = "clicked"]
        /\ probes' = <<>>
        /\ keepAliveInterval' = stopped.handle
        /\ pmTimers' = stopped.timers
        /\ useProxy' = IF wasUsingStableMode /\ outcome # "clicked" THEN 0 ELSE useProxy
        /\ UNCHANGED <<pmPings, lastPing, botAt, optVars, qVars, pmVars>>

\* waitForVerificationCode(): the same override around the loop that polls
\* the mailbox (getVerificationCode catches its errors and returns null);
\* useProxy is set back to 5 after the loop, whether a code was found or not
WaitForVerificationCode(found) ==
    LET originalProxySetting == useProxy
        stopped == StoppedForOverride(useProxy = 5)
    IN  /\ call' = [op |-> "waitForVerificationCode", before |-> currentProxy,
                    pool |-> Len(proxies), useProxy |-> useProxy,
                    outcome |-> IF found THEN "code" ELSE "no_code"]
        /\ ret' = [ok |-> found]
        /\ probes' = <<>>
        /\ keepAliveInterval' = stopped.handle
        /\ pmTimers' = stopped.timers
        /\ useProxy' = IF originalProxySetting = 5 THEN 5 ELSE useProxy
        /\ UNCHANGED <<pmPings, lastPing, botAt, optVars, qVars, pmVars>>

\* a bot configured with SOCKS5 relays (4) or in stable mode (5)
InitOverride ==
    /\ InitPM
    /\ \E mode \in {4, 5} : InitBot(mode)
    /\ testCount = 1
    /\ keepAliveEnabled = TRUE
    /\ keepAliveMs = DefaultKeepAliveMs

\* proxy type 5 names no list: the pool of a bot that started in stable mode
\* (useProxy 5, or 0 while overridden) stays empty
NextOverride ==
    \/ \E pool \in EmptyPoolFiles : (pool = <<>> \/ useProxy = 4) /\ LoadProxies(pool)
    \/ GetWorkingProxyAny({500})
    \/ StartKeepAlive
    \/ StopKeepAlive
    \/ \E outcome \in {"clicked", "not_clicked", "throws"} : ClickContinueButton(outcome)
    \/ \E found \in BOOLEAN : WaitForVerificationCode(found)

SpecOverride == InitOverride /\ [][NextOverride]_vars

\* C33: an operation that finds useProxy = 5 and overrides it with 0 leaves
\* it at 5 again on every exit path: return true, return false and a thrown
\* error
C33_OverrideIsRestored ==
    [][(call'.op \in {"clickContinueButton", "waitForVerificationCode"}
         /\ useProxy = 5) => useProxy' = 5]_vars

-----------------------------------------------------------------------------
(* CrossfireReferralBot: performRegistration and its restart after a proxy
   recovery.  The model holds the one ProxyManager of the bot, so the
   recovery finds a manager. *)

\* performRegistration() is called by run()
PerformRegistration ==
    /\ botAt = "idle"
    /\ botAt' = "registering"
    /\ UNCHANGED <<useProxy, optVars, pmVars, kaVars, qVars, obsVars>>

\* waitForRegistrationForm() returned false: performAdvancedProxyRecovery()
\* awaits switchToNextProxy() and returns true whatever the switch gave, and
\* performRegistration() calls itself
RegistrationRestarts(outcomes) ==
    /\ botAt = "registering"
    /\ SwitchToNextProxyAny(outcomes)

\* performRegistration() returns: the submit button was not clicked, a
\* step threw and the catch block logged it, or the form was ready and the
\* steps after it were done
RegistrationReturns(outcome) ==
    /\ botAt = "registering"
    /\ botAt' = "returned"
    /\ call' = [op |-> "performRegistration", before |-> currentProxy,
                pool |-> Len(proxies), outcome |-> outcome]
    /\ ret' = Null
    /\ probes' = <<>>
    /\ UNCHANGED <<useProxy, optVars, pmVars, kaVars, qVars>>

\* a step of the performRegistration call that is running
RegistrationStep ==
    \/ RegistrationRestarts(RankOutcomes)
    \/ \E outcome \in {"submit_not_clicked", "error", "completed"} :
          RegistrationReturns(outcome)

NextRegistration ==
    \/ \E pool \in RankPools : LoadProxies(pool)
    \/ GetWorkingProxyAny({500})
    \/ PerformRegistration
    \/ RegistrationStep

\* the running call is not suspended for ever: each await settles
SpecRegistration ==
    InitSwitch /\ [][NextRegistration]_vars /\ WF_vars(RegistrationStep)

\* C39: a performRegistration call eventually returns, whatever the pages
\* give: the path of recovery and restart is taken a bounded number of times
C39_RegistrationReturns ==
    (botAt = "registering") ~> (botAt = "returned")

-----------------------------------------------------------------------------
(* Claims about the relay a keep-alive request scores (checked under
   SpecHealth) *)

\* C34: when the request of testHttpConnectivity settles, the score update
\* (+ 1, - 2 or - 3) goes to the key of the relay the request was sent
\* through, also when the current relay changed while it was in flight: no
\* other key's score changes
C34_ScoresTheProbedRelay ==
    [][\A q \in BagToSet(pmPings) :
          (q.phase = "http" /\ pmPings' = pmPings (-) SetToBag({q})) =>
              \A k \in DOMAIN proxyHealthScores' :
                  k # KeyOf(q.target) =>
                      ScoreOf(proxyHealthScores', k) = ScoreOf(proxyHealthScores, k)]_vars

-----------------------------------------------------------------------------
(* Claims about getWorkingProxy after a switch and during the load (checked
   under SpecRank, where the list that is loaded holds three relays) *)

\* C36: after a switchToNextProxy that accepted the relay R and made it
\* current, the next getWorkingProxy does not move the current relay back
\* to the best relay selected earlier: the current relay is still R, or
\* the call ran a fresh selection
C36_GetWorkingProxyKeepsSwitch ==
    [][(/\ call.op = "switchToNextProxy"
        /\ ret # Null
        /\ call'.op = "getWorkingProxy")
          => (KeyOf(currentProxy') = KeyOf(ret) \/ probes' # <<>>)]_vars

\* C37: a getWorkingProxy call made at any time after the construction sees
\* the whole loaded pool and does not return null because the load started
\* by the constructor has not finished
C37_GetWorkingProxySeesLoadedPool ==
    call.op = "getWorkingProxy" =>
        /\ \E pool \in RankPools : call.pool = Len(pool)
        /\ ret # Null

====
